---- MODULE Spec2Model ----
(***************************************************************************)
(* The PSA crypto secure partition (psa_crypto_partition.c): the dispatch  *)
(* loop crypto_main, the generic message_handler, the per-service          *)
(* handlers, the hash clone slot pool and the access control registry.     *)
(*                                                                         *)
(* A handler runs to completion inside one step.  Each handler is an       *)
(* operator from (message, world) to the SET of its possible outcomes: the *)
(* nondeterminism is that of the collaborators (the Crypto Engine's status,*)
(* the allocator, the number of bytes psa_read delivers) and of reads of   *)
(* variables the C code leaves uninitialised.  An outcome carries the new  *)
(* world, the status returned, whether SPM_PANIC stopped the process, and  *)
(* the ordered log of the external calls the handler made.                 *)
(***************************************************************************)
EXTENDS Integers, Sequences, FiniteSets, TLC

VARIABLES
    scope,      \* the profile of the run: services in use, connections, payloads
    pc,         \* "loop": crypto_main between handlers; "handle": a message
                \* was retrieved by psa_get; "panic": SPM_PANIC stopped the process
    todo,       \* signals returned by the last psa_wait, not yet examined
    msg,        \* crypto_main's psa_msg_t msg
    trace,      \* external calls made for msg so far (history)
    pre,        \* the world when msg was retrieved (history)
    counter,    \* psa_spm_init_refence_counter
    clones,     \* psa_spm_hash_clones[]
    acl,        \* access control registry: key handle -> owning partition, 0 = none
    conns,      \* SPM connections: channel -> [kind, client, rhandle]
    heap,       \* addresses of the operation contexts currently allocated
    registrant, \* key handle -> partition of its latest registration still
                \* standing, 0 = none (history, from the calls logged in trace)
    initialized, \* the Crypto Engine is initialised: the latest of psa_crypto_init
                \* succeeding and mbedtls_psa_crypto_free (history, from trace)
    balance,    \* client -> its successful init requests minus its free requests
                \* (history)
    assembly,   \* two key identifiers with their callers and the composite
                \* identifiers assembled for them (the assembly on its own)
    pending,    \* msgs: the kinds with a message waiting to be retrieved;
                \* failing: the kinds whose signal is asserted while psa_get
                \* fails for them (the dispatch loop under fair scheduling)
    transfer    \* the locals of one PSA_HASH_UPDATE / PSA_MAC_UPDATE case taken
                \* statement by statement (the chunked transfer on its own)

vars == <<scope, pc, todo, msg, trace, pre, counter, clones, acl, conns, heap, registrant, initialized, balance, assembly, pending, transfer>>

----------------------------------------------------------------------------
(* Program constants *)

MAX_CONCURRENT_HASH_CLONES == 2
MAX_DATA_CHUNK_SIZE_IN_BYTES == 400
CLIENT_PSA_KEY_ID_SIZE_IN_BYTES == 4
UINT8_RANGE == 256
NULL == 0
SIZEOF_PSA_KEY_TYPE == 4
SIZEOF_SIZE_T == 4
SIZEOF_PSA_KEY_HANDLE == 2

(* Bounds of the model *)

MaxChan == 3        \* connections that may be open at the same time
MaxCounter == 2     \* clients stop sending init once the counter is here
MaxFreeAhead == 1   \* frees a client may send without an init of its own before
MaxRefCount == 2    \* clients stop repeating CLONE_BEGIN once ref_count is here
MaxTransferLen == 6 \* the short payload lengths of the chunked transfer on its own

Chan == 1..MaxChan
Addr == 1..MaxChan
Clients == {-1, 1}
Handles == {1, 2}

MIN(a, b) == IF a < b THEN a ELSE b

----------------------------------------------------------------------------
(* Service kinds, in the order crypto_main examines their signals *)

KindOrder ==
    << "PSA_CRYPTO_INIT", "PSA_MAC", "PSA_HASH", "PSA_SYMMETRIC", "PSA_ASYMMETRIC",
       "PSA_AEAD", "PSA_KEY_MNG", "PSA_RNG", "PSA_CRYPTO_FREE", "PSA_GENERATOR",
       "PSA_ENTROPY_INJECT" >>

Kinds == {KindOrder[i] : i \in 1..Len(KindOrder)}

KindIndex(k) == CHOOSE i \in 1..Len(KindOrder) : KindOrder[i] = k

\* kinds whose connections carry an operation context (rhandle)
ContextKinds == {"PSA_MAC", "PSA_HASH", "PSA_SYMMETRIC", "PSA_GENERATOR"}

\* A profile tells which services have clients in a run, how many connections
\* the clients keep open at the same time, and the payload lengths of their updates.
Profile(kinds, chans, lens) == [kinds |-> kinds, chans |-> chans, lens |-> lens]

\* payload lengths of an update: around one, two and three chunks
UpdateLens ==
    { 0, 1, MAX_DATA_CHUNK_SIZE_IN_BYTES - 1, MAX_DATA_CHUNK_SIZE_IN_BYTES,
      MAX_DATA_CHUNK_SIZE_IN_BYTES + 1, 2 * MAX_DATA_CHUNK_SIZE_IN_BYTES,
      2 * MAX_DATA_CHUNK_SIZE_IN_BYTES + 200, 3 * MAX_DATA_CHUNK_SIZE_IN_BYTES }

Profiles ==
    { Profile({"PSA_HASH"}, MaxChan, {0}),
      Profile({"PSA_CRYPTO_INIT", "PSA_CRYPTO_FREE"}, 0, {0}),
      Profile({"PSA_CRYPTO_INIT", "PSA_CRYPTO_FREE", "PSA_HASH"}, 1, {0}),
      Profile({"PSA_MAC", "PSA_HASH"}, 1, UpdateLens),
      Profile({"PSA_CRYPTO_INIT", "PSA_CRYPTO_FREE", "PSA_KEY_MNG"}, 0, {0}),
      Profile({"PSA_KEY_MNG", "PSA_MAC", "PSA_SYMMETRIC"}, 1, {0}),
      Profile({"PSA_KEY_MNG", "PSA_ASYMMETRIC", "PSA_AEAD"}, 0, {0}),
      Profile({"PSA_KEY_MNG", "PSA_GENERATOR"}, 1, {0}),
      Profile({"PSA_RNG", "PSA_ENTROPY_INJECT", "PSA_CRYPTO_INIT"}, 0, {0}) }

(* Status codes *)

PSA_SUCCESS == "PSA_SUCCESS"
PSA_ERROR_INVALID_HANDLE == "PSA_ERROR_INVALID_HANDLE"
PSA_ERROR_NOT_SUPPORTED == "PSA_ERROR_NOT_SUPPORTED"
PSA_ERROR_INSUFFICIENT_MEMORY == "PSA_ERROR_INSUFFICIENT_MEMORY"
PSA_ERROR_INVALID_ARGUMENT == "PSA_ERROR_INVALID_ARGUMENT"
PSA_ERROR_COMMUNICATION_FAILURE == "PSA_ERROR_COMMUNICATION_FAILURE"
PSA_ERROR_BAD_STATE == "PSA_ERROR_BAD_STATE"

\* what a Crypto Engine operation may return
EngineStatus == {PSA_SUCCESS, PSA_ERROR_BAD_STATE}

\* what a read of an uninitialised psa_status_t may yield
IndeterminateStatus ==
    {PSA_SUCCESS, PSA_ERROR_INSUFFICIENT_MEMORY, PSA_ERROR_BAD_STATE, "GARBAGE"}

UNINIT == "UNINITIALISED"

(* Message types *)

PSA_IPC_CONNECT == "PSA_IPC_CONNECT"
PSA_IPC_CALL == "PSA_IPC_CALL"
PSA_IPC_DISCONNECT == "PSA_IPC_DISCONNECT"
OTHER_TYPE == "UNEXPECTED_TYPE"

----------------------------------------------------------------------------
(* The log of external calls *)

\* n is the number of bytes of a psa_write, 0 for the other calls
Ev(op, a, b, st) == [op |-> op, a |-> a, b |-> b, st |-> st, n |-> 0]

EngineOpNames ==
    { "psa_crypto_init", "mbedtls_psa_crypto_free",
      "psa_mac_sign_setup", "psa_mac_verify_setup", "psa_mac_update",
      "psa_mac_sign_finish", "psa_mac_verify_finish", "psa_mac_abort",
      "psa_hash_setup", "psa_hash_update", "psa_hash_finish", "psa_hash_verify",
      "psa_hash_abort", "psa_hash_clone",
      "psa_asymmetric_sign", "psa_asymmetric_verify", "psa_asymmetric_encrypt",
      "psa_asymmetric_decrypt", "psa_aead_encrypt", "psa_aead_decrypt",
      "psa_cipher_encrypt_setup", "psa_cipher_decrypt_setup", "psa_cipher_generate_iv",
      "psa_cipher_set_iv", "psa_cipher_update", "psa_cipher_finish", "psa_cipher_abort",
      "psa_get_key_lifetime", "psa_set_key_policy", "psa_get_key_policy",
      "psa_import_key", "psa_destroy_key", "psa_get_key_information", "psa_export_key",
      "psa_export_public_key", "psa_generate_key", "psa_allocate_key", "psa_create_key",
      "psa_open_key", "psa_close_key",
      "mbedtls_psa_inject_entropy", "psa_generate_random",
      "psa_get_generator_capacity", "psa_generator_read", "psa_generator_import_key",
      "psa_generator_abort", "psa_key_derivation", "psa_key_agreement" }

SelectOps(tr, ops) == SelectSeq(tr, LAMBDA e : e.op \in ops)

EngineOps(tr) == SelectOps(tr, EngineOpNames)

Replies(tr) == SelectOps(tr, {"psa_reply"})

(* Outcomes of a handler *)

Ret(w, tr, st) == [w |-> w, tr |-> tr, st |-> st, panic |-> FALSE]

Panic(w, tr) == [w |-> w, tr |-> tr, st |-> UNINIT, panic |-> TRUE]

\* psa_read of input parameter `slot`, n bytes requested: the transport delivers
\* them all, or fewer.  n is in bytes for parameter 1 (msg.len) and for the chunks
\* of an update; the sizes of the header (parameter 0) and of parameter 2 are not
\* modelled in bytes and are logged as 0.
ReadOk(slot, n) == Ev("psa_read", slot, n, "ok")

ReadShort(slot, n) == Ev("psa_read", slot, n, "short")

\* psa_read of n bytes delivering fewer: as many as the handler then compares
\* the count with (a handler that compares with another size than it requested)
ReadShortOfCheckedSize(slot, n) == Ev("psa_read", slot, n, "short, of the checked size")

AllocCtx(a) == Ev("calloc", a, 0, "context")

FreeCtx(a) == Ev("free", a, 0, "context")

AllocBuf(id) == Ev("calloc", 1, id, "scratch")

AllocBufFail(id) == Ev("calloc", NULL, id, "scratch")

FreeBuf(id) == Ev("free", 1, id, "scratch")

Eng(op, a, st) == Ev(op, a, 0, st)

\* psa_write of `size` bytes to output parameter `slot`
Write(slot, value, size) == [Ev("psa_write", slot, value, "") EXCEPT !.n = size]

\* the length a Crypto Engine operation reports for the output it produced in a
\* buffer of `size` bytes: at most size, and the log keeps that upper bound
output_length(size) == size

Reply(st) == Ev("psa_reply", 0, 0, st)

\* return (status): an uninitialised status is whatever the build left there
ReturnStatus(w, tr, st) ==
    IF st = UNINIT
    THEN {Ret(w, tr, s) : s \in IndeterminateStatus}
    ELSE {Ret(w, tr, st)}

\* read_message_param: SPM_PANIC when the transport delivers another length
read_message_param(w, tr, slot, n) ==
    IF slot = 1 /\ n = 0 THEN {} ELSE {Panic(w, Append(tr, ReadShort(slot, n)))}

\* read_message_param(msg, 0, &crypto_ipc) copies msg->in_size[0] bytes into the
\* header structure: a parameter longer than the structure overwrites what
\* follows it on the stack, and the handler goes on with what it decoded or the
\* process is brought down; a shorter one leaves the rest of the header zero
read_header(m, w) ==
    read_message_param(w, << >>, 0, 0)
    \cup (IF m.in0 = "long"
          THEN {Panic(w, << ReadOk(0, 0), Ev("stack overwritten", 0, 0, "") >>)}
          ELSE {})

----------------------------------------------------------------------------
(* The hash clone slot pool *)

CloneIdx == 0..(MAX_CONCURRENT_HASH_CLONES - 1)

EmptyClone == [partition_id |-> 0, source_operation |-> NULL, ref_count |-> 0]

NoClones == [i \in CloneIdx |-> EmptyClone]

Lowest(S) == CHOOSE i \in S : \A j \in S : i <= j

\* reserve_hash_clone without the search for the pair's own slot
reserve_hash_clone_AlwaysNew(cl, partition_id, source_operation) ==
    LET empty == {i \in CloneIdx : /\ cl[i].partition_id = 0
                                   /\ cl[i].source_operation = NULL}
    IN  IF empty # {}
        THEN [status |-> PSA_SUCCESS, index |-> Lowest(empty),
              clones |-> [cl EXCEPT ![Lowest(empty)] =
                            [partition_id |-> partition_id,
                             source_operation |-> source_operation,
                             ref_count |-> (@.ref_count + 1) % UINT8_RANGE]]]
        ELSE [status |-> PSA_ERROR_BAD_STATE, index |-> MAX_CONCURRENT_HASH_CLONES,
              clones |-> cl]

\* reserve_hash_clone that takes slot 0 over when no slot is free
reserve_hash_clone_Evict(cl, partition_id, source_operation) ==
    LET same == {i \in CloneIdx : /\ cl[i].partition_id = partition_id
                                  /\ cl[i].source_operation = source_operation}
        empty == {i \in CloneIdx : /\ cl[i].partition_id = 0
                                   /\ cl[i].source_operation = NULL}
        slot == IF empty # {} THEN Lowest(empty) ELSE 0
    IN  IF same # {}
        THEN [status |-> PSA_SUCCESS, index |-> Lowest(same),
              clones |-> [cl EXCEPT ![Lowest(same)].ref_count = (@ + 1) % UINT8_RANGE]]
        ELSE [status |-> PSA_SUCCESS, index |-> slot,
              clones |-> [cl EXCEPT ![slot] =
                            [partition_id |-> partition_id,
                             source_operation |-> source_operation,
                             ref_count |-> 1]]]

\* reserve_hash_clone whose search for the pair's own slot stops one slot short
reserve_hash_clone_ShortSearch(cl, partition_id, source_operation) ==
    LET same == {i \in CloneIdx \ {MAX_CONCURRENT_HASH_CLONES - 1} :
                    /\ cl[i].partition_id = partition_id
                    /\ cl[i].source_operation = source_operation}
        empty == {i \in CloneIdx : /\ cl[i].partition_id = 0
                                   /\ cl[i].source_operation = NULL}
    IN  IF same # {}
        THEN [status |-> PSA_SUCCESS, index |-> Lowest(same),
              clones |-> [cl EXCEPT ![Lowest(same)].ref_count = (@ + 1) % UINT8_RANGE]]
        ELSE IF empty # {}
        THEN [status |-> PSA_SUCCESS, index |-> Lowest(empty),
              clones |-> [cl EXCEPT ![Lowest(empty)] =
                            [partition_id |-> partition_id,
                             source_operation |-> source_operation,
                             ref_count |-> (@.ref_count + 1) % UINT8_RANGE]]]
        ELSE [status |-> PSA_ERROR_BAD_STATE, index |-> MAX_CONCURRENT_HASH_CLONES,
              clones |-> cl]

reserve_hash_clone(cl, partition_id, source_operation) ==
    LET same == {i \in CloneIdx : /\ cl[i].partition_id = partition_id
                                  /\ cl[i].source_operation = source_operation}
        empty == {i \in CloneIdx : /\ cl[i].partition_id = 0
                                   /\ cl[i].source_operation = NULL}
    IN  IF same # {}
        THEN [status |-> PSA_SUCCESS, index |-> Lowest(same),
              clones |-> [cl EXCEPT ![Lowest(same)].ref_count = (@ + 1) % UINT8_RANGE]]
        ELSE IF empty # {}
        THEN [status |-> PSA_SUCCESS, index |-> Lowest(empty),
              clones |-> [cl EXCEPT ![Lowest(empty)] =
                            [partition_id |-> partition_id,
                             source_operation |-> source_operation,
                             ref_count |-> (@.ref_count + 1) % UINT8_RANGE]]]
        ELSE [status |-> PSA_ERROR_BAD_STATE, index |-> MAX_CONCURRENT_HASH_CLONES,
              clones |-> cl]

release_hash_clone(cl, i) ==
    LET rc == (cl[i].ref_count + UINT8_RANGE - 1) % UINT8_RANGE
    IN  IF rc = 0
        THEN [cl EXCEPT ![i] = EmptyClone]
        ELSE [cl EXCEPT ![i].ref_count = rc]

\* destroy_hash_clone that drops one reference instead of clearing the slot
destroy_hash_clone_Release(cl, source_operation) ==
    LET hit == {i \in CloneIdx : cl[i].source_operation = source_operation}
    IN  IF hit = {} THEN cl ELSE release_hash_clone(cl, Lowest(hit))

destroy_hash_clone(cl, source_operation) ==
    LET hit == {i \in CloneIdx : cl[i].source_operation = source_operation}
    IN  IF hit = {} THEN cl ELSE [cl EXCEPT ![Lowest(hit)] = EmptyClone]

\* get_hash_clone without the comparison of the slot's owner with the caller
get_hash_clone_AnyOwner(cl, index, partition_id) ==
    IF \/ index >= MAX_CONCURRENT_HASH_CLONES
       \/ cl[index].source_operation = NULL
    THEN PSA_ERROR_BAD_STATE
    ELSE PSA_SUCCESS

get_hash_clone(cl, index, partition_id) ==
    IF \/ index >= MAX_CONCURRENT_HASH_CLONES
       \/ cl[index].partition_id # partition_id
       \/ cl[index].source_operation = NULL
    THEN PSA_ERROR_BAD_STATE
    ELSE PSA_SUCCESS

----------------------------------------------------------------------------
(* The access control registry (psa_crypto_access_control.h declares it; its *)
(* implementation is not part of the sources at hand)                        *)

psa_crypto_access_control_init == [h \in Handles |-> 0]

psa_crypto_access_control_destroy == [h \in Handles |-> 0]

\* a registration that does not replace a standing one
psa_crypto_access_control_register_handle_IfFree(a, key_handle, partition_id) ==
    IF a[key_handle] = 0 THEN [a EXCEPT ![key_handle] = partition_id] ELSE a

psa_crypto_access_control_register_handle(a, key_handle, partition_id) ==
    [a EXCEPT ![key_handle] = partition_id]

psa_crypto_access_control_unregister_handle(a, key_handle) ==
    [a EXCEPT ![key_handle] = 0]

psa_crypto_access_control_is_handle_permitted(a, key_handle, partition_id) ==
    key_handle \in DOMAIN a /\ a[key_handle] # 0 /\ a[key_handle] = partition_id

----------------------------------------------------------------------------
(* Lifecycle: psa_crypto_init / mbedtls_psa_crypto_free reference counting *)

\* crypto_init_on_call that resets the pool and the registry on every success
crypto_init_on_call_AlwaysReset(m, w) ==
    { IF s = PSA_SUCCESS
      THEN Ret([w EXCEPT !.counter = @ + 1, !.clones = NoClones,
                         !.acl = psa_crypto_access_control_init],
               << Eng("psa_crypto_init", 0, s), Ev("memset", 0, 0, "psa_spm_hash_clones"),
                  Ev("psa_crypto_access_control_init", 0, 0, "") >>, s)
      ELSE Ret(w, << Eng("psa_crypto_init", 0, s) >>, s)
      : s \in EngineStatus }

\* crypto_init_on_call that counts the request whatever the engine returned
crypto_init_on_call_Unconditional(m, w) ==
    { IF w.counter + 1 = 1
      THEN Ret([w EXCEPT !.counter = 1, !.clones = NoClones,
                         !.acl = psa_crypto_access_control_init],
               << Eng("psa_crypto_init", 0, s), Ev("memset", 0, 0, "psa_spm_hash_clones"),
                  Ev("psa_crypto_access_control_init", 0, 0, "") >>, s)
      ELSE Ret([w EXCEPT !.counter = @ + 1], << Eng("psa_crypto_init", 0, s) >>, s)
      : s \in EngineStatus }

crypto_init_on_call(m, w) ==
    { IF s = PSA_SUCCESS
      THEN IF w.counter + 1 = 1
           THEN Ret([w EXCEPT !.counter = 1, !.clones = NoClones,
                              !.acl = psa_crypto_access_control_init],
                    << Eng("psa_crypto_init", 0, s), Ev("memset", 0, 0, "psa_spm_hash_clones"),
                       Ev("psa_crypto_access_control_init", 0, 0, "") >>, s)
           ELSE Ret([w EXCEPT !.counter = @ + 1], << Eng("psa_crypto_init", 0, s) >>, s)
      ELSE Ret(w, << Eng("psa_crypto_init", 0, s) >>, s)
      : s \in EngineStatus }

\* crypto_free_on_call that tears down whatever the count
crypto_free_on_call_Always(m, w) ==
    LET c == IF w.counter > 0 THEN w.counter - 1 ELSE w.counter
    IN  {Ret([w EXCEPT !.counter = c, !.clones = NoClones,
                       !.acl = psa_crypto_access_control_destroy],
             << Ev("memset", 0, 0, "psa_spm_hash_clones"),
                Ev("psa_crypto_access_control_destroy", 0, 0, ""),
                Eng("mbedtls_psa_crypto_free", 0, PSA_SUCCESS) >>, PSA_SUCCESS)}

crypto_free_on_call(m, w) ==
    LET c == IF w.counter > 0 THEN w.counter - 1 ELSE w.counter
    IN  IF c = 0
        THEN {Ret([w EXCEPT !.counter = c, !.clones = NoClones,
                            !.acl = psa_crypto_access_control_destroy],
                  << Ev("memset", 0, 0, "psa_spm_hash_clones"),
                     Ev("psa_crypto_access_control_destroy", 0, 0, ""),
                     Eng("mbedtls_psa_crypto_free", 0, PSA_SUCCESS) >>, PSA_SUCCESS)}
        ELSE {Ret([w EXCEPT !.counter = c], << >>, PSA_SUCCESS)}

----------------------------------------------------------------------------
(* Operation context lifecycle *)

\* msg->rhandle: the context the SPM keeps for the message's connection
Rhandle(m, w) == IF m.chan \in Chan THEN w.conns[m.chan].rhandle ELSE NULL

\* the connect that does not look at what calloc returned
context_on_connect_Unchecked(m, w) ==
    {Ret(w, << AllocCtx(NULL), Ev("psa_set_rhandle", m.chan, NULL, "") >>, PSA_SUCCESS)}
    \cup
    {Ret([w EXCEPT !.heap = @ \cup {a}, !.conns[m.chan].rhandle = a],
         << AllocCtx(a), Ev("psa_set_rhandle", m.chan, a, "") >>, PSA_SUCCESS)
       : a \in {Lowest(Addr \ w.heap)}}

\* calloc of a context (first fit), then psa_set_rhandle
context_on_connect(m, w) ==
    {Ret(w, << AllocCtx(NULL) >>, PSA_ERROR_INSUFFICIENT_MEMORY)}
    \cup
    {Ret([w EXCEPT !.heap = @ \cup {a}, !.conns[m.chan].rhandle = a],
         << AllocCtx(a), Ev("psa_set_rhandle", m.chan, a, "") >>, PSA_SUCCESS)
       : a \in {Lowest(Addr \ w.heap)}}

mac_on_connect(m, w) == context_on_connect(m, w)

hash_on_connect(m, w) == context_on_connect(m, w)

symmetric_on_connect(m, w) == context_on_connect(m, w)

\* abort, then free unless msg->rhandle is NULL
context_on_disconnect(m, w, abort_op) ==
    LET rh == Rhandle(m, w)
    IN  { IF rh # NULL
          THEN Ret([w EXCEPT !.heap = @ \ {rh}],
                   << Eng(abort_op, rh, s), FreeCtx(rh) >>, PSA_SUCCESS)
          ELSE Ret(w, << Eng(abort_op, rh, s) >>, PSA_SUCCESS)
          : s \in EngineStatus }

mac_on_disconnect(m, w) == context_on_disconnect(m, w, "psa_mac_abort")

symmetric_on_disconnect(m, w) == context_on_disconnect(m, w, "psa_cipher_abort")

\* hash_on_disconnect without the free of the context
hash_on_disconnect_Leak(m, w) ==
    LET rh == Rhandle(m, w)
    IN  { IF rh # NULL
          THEN Ret([w EXCEPT !.clones = destroy_hash_clone(@, rh)],
                   << Eng("psa_hash_abort", rh, s), Ev("destroy_hash_clone", rh, 0, "") >>,
                   PSA_SUCCESS)
          ELSE Ret(w, << Eng("psa_hash_abort", rh, s) >>, PSA_SUCCESS)
          : s \in EngineStatus }

\* the disconnect that frees the context before it releases the slot
hash_on_disconnect_FreeFirst(m, w) ==
    LET rh == Rhandle(m, w)
    IN  { IF rh # NULL
          THEN Ret([w EXCEPT !.clones = destroy_hash_clone(@, rh), !.heap = @ \ {rh}],
                   << Eng("psa_hash_abort", rh, s), FreeCtx(rh),
                      Ev("destroy_hash_clone", rh, 0, "") >>, PSA_SUCCESS)
          ELSE Ret(w, << Eng("psa_hash_abort", rh, s) >>, PSA_SUCCESS)
          : s \in EngineStatus }

hash_on_disconnect(m, w) ==
    LET rh == Rhandle(m, w)
    IN  { IF rh # NULL
          THEN Ret([w EXCEPT !.clones = destroy_hash_clone(@, rh), !.heap = @ \ {rh}],
                   << Eng("psa_hash_abort", rh, s), Ev("destroy_hash_clone", rh, 0, ""),
                      FreeCtx(rh) >>, PSA_SUCCESS)
          ELSE Ret(w, << Eng("psa_hash_abort", rh, s) >>, PSA_SUCCESS)
          : s \in EngineStatus }

----------------------------------------------------------------------------
(* Pieces shared by the MAC, hash and cipher call handlers *)

\* a setup that names a key: the access check, then the engine
key_setup_case(m, w, tr, setup_op) ==
    IF ~psa_crypto_access_control_is_handle_permitted(w.acl, m.handle, m.client)
    THEN {Ret(w, tr, PSA_ERROR_INVALID_HANDLE)}
    ELSE {Ret(w, Append(tr, Eng(setup_op, m.handle, s)), s) : s \in EngineStatus}

\* while (data_remaining > 0) { psa_read a chunk; update; stop on error }
\* yields [tr, st, panic]: st is the handler's status variable after the loop
RECURSIVE chunk_loop(_, _, _, _)

\* the loop without the cap of a chunk at MAX_DATA_CHUNK_SIZE_IN_BYTES
chunk_loop_Uncapped(update_op, data_remaining, status, tr) ==
    IF data_remaining > 0
    THEN LET size_to_read == data_remaining
             bytes_read == size_to_read
             read == Append(tr, ReadOk(1, size_to_read))
         IN  {[tr |-> Append(tr, ReadShort(1, size_to_read)), st |-> status, panic |-> TRUE]}
             \cup
             {[tr |-> Append(read, Eng(update_op, bytes_read, s)), st |-> s, panic |-> FALSE]
                : s \in EngineStatus}
    ELSE {[tr |-> tr, st |-> status, panic |-> FALSE]}

\* the loop that goes on to the next chunk after the sink failed
chunk_loop_Persist(update_op, data_remaining, status, tr) ==
    IF data_remaining > 0
    THEN LET size_to_read == MIN(data_remaining, MAX_DATA_CHUNK_SIZE_IN_BYTES)
             bytes_read == size_to_read
             read == Append(tr, ReadOk(1, size_to_read))
         IN  {[tr |-> Append(tr, ReadShort(1, size_to_read)), st |-> status, panic |-> TRUE]}
             \cup
             UNION { chunk_loop(update_op, data_remaining - bytes_read, s,
                                Append(read, Eng(update_op, bytes_read, s)))
                     : s \in EngineStatus }
    ELSE {[tr |-> tr, st |-> status, panic |-> FALSE]}

chunk_loop(update_op, data_remaining, status, tr) ==
    IF data_remaining > 0
    THEN LET size_to_read == MIN(data_remaining, MAX_DATA_CHUNK_SIZE_IN_BYTES)
             bytes_read == size_to_read
             read == Append(tr, ReadOk(1, size_to_read))
         IN  {[tr |-> Append(tr, ReadShort(1, size_to_read)), st |-> status, panic |-> TRUE]}
             \cup
             UNION { IF s # PSA_SUCCESS
                     THEN {[tr |-> Append(read, Eng(update_op, bytes_read, s)),
                            st |-> s, panic |-> FALSE]}
                     ELSE chunk_loop(update_op, data_remaining - bytes_read, s,
                                     Append(read, Eng(update_op, bytes_read, s)))
                     : s \in EngineStatus }
    ELSE {[tr |-> tr, st |-> status, panic |-> FALSE]}

\* PSA_MAC_UPDATE / PSA_HASH_UPDATE: status is first assigned inside the loop
update_case(m, w, tr, update_op) ==
    {Ret(w, Append(tr, AllocBufFail(1)), PSA_ERROR_INSUFFICIENT_MEMORY)}
    \cup
    UNION { IF r.panic
            THEN {Panic(w, r.tr)}
            ELSE ReturnStatus(w, Append(r.tr, FreeBuf(1)), r.st)
            : r \in chunk_loop(update_op, m.len, UNINIT, Append(tr, AllocBuf(1))) }

\* PSA_MAC_SIGN_FINISH / PSA_HASH_FINISH up to the free of the result buffer;
\* yields [tr, st, panic, engine]: engine tells whether the engine was reached
sign_finish_steps(m, w, tr, finish_op) ==
    {[tr |-> Append(tr, ReadShort(1, m.len)), st |-> UNINIT, panic |-> TRUE, engine |-> FALSE]}
    \cup
    {[tr |-> tr \o << ReadOk(1, m.len), AllocBufFail(1) >>,
      st |-> PSA_ERROR_INSUFFICIENT_MEMORY, panic |-> FALSE, engine |-> FALSE]}
    \cup
    {[tr |-> tr \o << ReadOk(1, m.len), AllocBuf(1), Eng(finish_op, Rhandle(m, w), s) >>
                \o (IF s = PSA_SUCCESS
                    THEN << Write(0, 0, output_length(m.size)), Write(1, 0, SIZEOF_SIZE_T) >>
                    ELSE << >>)
                \o << FreeBuf(1) >>,
      st |-> s, panic |-> FALSE, engine |-> TRUE] : s \in EngineStatus}

\* PSA_MAC_VERIFY_FINISH / PSA_HASH_VERIFY up to the free of the buffer
verify_finish_steps(m, w, tr, verify_op) ==
    {[tr |-> Append(tr, ReadShort(1, m.len)), st |-> UNINIT, panic |-> TRUE, engine |-> FALSE]}
    \cup
    {[tr |-> tr \o << ReadOk(1, m.len), AllocBufFail(1) >>,
      st |-> PSA_ERROR_INSUFFICIENT_MEMORY, panic |-> FALSE, engine |-> FALSE]}
    \cup
    {[tr |-> tr \o << ReadOk(1, m.len), AllocBuf(1), ReadShort(2, 0) >>,
      st |-> UNINIT, panic |-> TRUE, engine |-> FALSE]}
    \cup
    {[tr |-> tr \o << ReadOk(1, m.len), AllocBuf(1), ReadOk(2, 0),
                      Eng(verify_op, Rhandle(m, w), s), FreeBuf(1) >>,
      st |-> s, panic |-> FALSE, engine |-> TRUE] : s \in EngineStatus}

Outcome(w, r) == IF r.panic THEN Panic(w, r.tr) ELSE Ret(w, r.tr, r.st)

----------------------------------------------------------------------------
(* MAC *)

mac_on_call(m, w) ==
    LET tr == << ReadOk(0, 0) >>
    IN  read_header(m, w)
        \cup
        CASE m.func = "PSA_MAC_SIGN_SETUP" -> key_setup_case(m, w, tr, "psa_mac_sign_setup")
          [] m.func = "PSA_MAC_VERIFY_SETUP" -> key_setup_case(m, w, tr, "psa_mac_verify_setup")
          [] m.func = "PSA_MAC_UPDATE" -> update_case(m, w, tr, "psa_mac_update")
          [] m.func = "PSA_MAC_SIGN_FINISH" ->
                {Outcome(w, r) : r \in sign_finish_steps(m, w, tr, "psa_mac_sign_finish")}
          [] m.func = "PSA_MAC_VERIFY_FINISH" ->
                {Outcome(w, r) : r \in verify_finish_steps(m, w, tr, "psa_mac_verify_finish")}
          [] m.func = "PSA_MAC_ABORT" ->
                {Ret(w, Append(tr, Eng("psa_mac_abort", Rhandle(m, w), s)), s) : s \in EngineStatus}
          [] OTHER -> {Ret(w, tr, PSA_ERROR_NOT_SUPPORTED)}

----------------------------------------------------------------------------
(* Hash *)

\* destroy_hash_clone(msg->rhandle) at the end of finish, verify and abort
hash_destroy_clone(m, w, r) ==
    IF r.panic
    THEN Panic(w, r.tr)
    ELSE IF r.engine
    THEN Ret([w EXCEPT !.clones = destroy_hash_clone(@, Rhandle(m, w))],
             Append(r.tr, Ev("destroy_hash_clone", Rhandle(m, w), 0, "")), r.st)
    ELSE Ret(w, r.tr, r.st)

hash_clone_begin_case(m, w, tr) ==
    LET r == reserve_hash_clone(w.clones, m.client, Rhandle(m, w))
    IN  IF r.status = PSA_SUCCESS
        THEN {Ret([w EXCEPT !.clones = r.clones], Append(tr, Write(0, r.index, SIZEOF_SIZE_T)), r.status)}
        ELSE {Ret(w, tr, r.status)}

hash_clone_end_case(m, w, tr) ==
    read_message_param(w, tr, 1, m.len)
    \cup
    IF get_hash_clone(w.clones, m.index, m.client) = PSA_SUCCESS
    THEN {Ret([w EXCEPT !.clones = release_hash_clone(@, m.index)],
              tr \o << ReadOk(1, m.len),
                       Eng("psa_hash_clone", w.clones[m.index].source_operation, s) >>, s)
            : s \in EngineStatus}
    ELSE {Ret(w, Append(tr, ReadOk(1, m.len)), PSA_ERROR_BAD_STATE)}

hash_on_call(m, w) ==
    LET tr == << ReadOk(0, 0) >>
    IN  read_header(m, w)
        \cup
        CASE m.func = "PSA_HASH_SETUP" ->
                {Ret(w, Append(tr, Eng("psa_hash_setup", Rhandle(m, w), s)), s) : s \in EngineStatus}
          [] m.func = "PSA_HASH_UPDATE" -> update_case(m, w, tr, "psa_hash_update")
          [] m.func = "PSA_HASH_FINISH" ->
                {hash_destroy_clone(m, w, r) : r \in sign_finish_steps(m, w, tr, "psa_hash_finish")}
          [] m.func = "PSA_HASH_VERIFY" ->
                {hash_destroy_clone(m, w, r) : r \in verify_finish_steps(m, w, tr, "psa_hash_verify")}
          [] m.func = "PSA_HASH_ABORT" ->
                {hash_destroy_clone(m, w, [tr |-> Append(tr, Eng("psa_hash_abort", Rhandle(m, w), s)),
                                           st |-> s, panic |-> FALSE, engine |-> TRUE])
                   : s \in EngineStatus}
          [] m.func = "PSA_HASH_CLONE_BEGIN" -> hash_clone_begin_case(m, w, tr)
          [] m.func = "PSA_HASH_CLONE_END" -> hash_clone_end_case(m, w, tr)
          [] OTHER -> {Ret(w, tr, PSA_ERROR_NOT_SUPPORTED)}

----------------------------------------------------------------------------
(* Handlers that allocate two scratch buffers *)

\* the two allocations without the free of buffer 1 when the second fails
alloc_two_Leak(w, tr) ==
    { Ret(w, Append(tr, AllocBufFail(1)), PSA_ERROR_INSUFFICIENT_MEMORY),
      Ret(w, tr \o << AllocBuf(1), AllocBufFail(2) >>, PSA_ERROR_INSUFFICIENT_MEMORY) }

\* calloc of buffer 1, then of buffer 2 (buffer 1 is freed when that fails)
alloc_two(w, tr) ==
    { Ret(w, Append(tr, AllocBufFail(1)), PSA_ERROR_INSUFFICIENT_MEMORY),
      Ret(w, tr \o << AllocBuf(1), AllocBufFail(2), FreeBuf(1) >>,
          PSA_ERROR_INSUFFICIENT_MEMORY) }

TwoBuffers(tr) == tr \o << AllocBuf(1), AllocBuf(2) >>

----------------------------------------------------------------------------
(* Asymmetric and AEAD: the access check precedes the switch *)

asymmetric_sign_case(m, w, tr) ==
    alloc_two(w, tr)
    \cup read_message_param(w, TwoBuffers(tr), 1, m.len)
    \cup {Ret(w, TwoBuffers(tr) \o << ReadOk(1, m.len), Eng("psa_asymmetric_sign", m.handle, s) >>
                 \o (IF s = PSA_SUCCESS THEN << Write(0, 0, output_length(m.out0)) >> ELSE << >>)
                 \o << Write(1, 0, SIZEOF_SIZE_T), FreeBuf(2), FreeBuf(1) >>, s) : s \in EngineStatus}

asymmetric_verify_case(m, w, tr) ==
    alloc_two(w, tr)
    \cup read_message_param(w, TwoBuffers(tr), 1, m.len)
    \cup read_message_param(w, Append(TwoBuffers(tr), ReadOk(1, m.len)), 2, 0)
    \cup {Ret(w, TwoBuffers(tr) \o << ReadOk(1, m.len), ReadOk(2, 0),
                                     Eng("psa_asymmetric_verify", m.handle, s),
                                     FreeBuf(1), FreeBuf(2) >>, s) : s \in EngineStatus}

asymmetric_crypt_case(m, w, tr, crypt_op) ==
    alloc_two(w, tr)
    \cup read_message_param(w, TwoBuffers(tr), 1, m.len)
    \cup {Ret(w, TwoBuffers(tr) \o << ReadOk(1, m.len), Eng(crypt_op, m.handle, s) >>
                 \o (IF s = PSA_SUCCESS THEN << Write(0, 0, output_length(m.out0)) >> ELSE << >>)
                 \o << Write(1, 0, SIZEOF_SIZE_T), FreeBuf(2), FreeBuf(1) >>, s) : s \in EngineStatus}

asymmetric_on_call(m, w) ==
    LET tr == << ReadOk(0, 0) >>
    IN  read_header(m, w)
        \cup
        IF ~psa_crypto_access_control_is_handle_permitted(w.acl, m.handle, m.client)
        THEN {Ret(w, tr, PSA_ERROR_INVALID_HANDLE)}
        ELSE CASE m.func = "PSA_ASYMMETRIC_SIGN" -> asymmetric_sign_case(m, w, tr)
               [] m.func = "PSA_ASYMMETRIC_VERIFY" -> asymmetric_verify_case(m, w, tr)
               [] m.func = "PSA_ASYMMETRIC_ENCRYPT" ->
                     asymmetric_crypt_case(m, w, tr, "psa_asymmetric_encrypt")
               [] m.func = "PSA_ASYMMETRIC_DECRYPT" ->
                     asymmetric_crypt_case(m, w, tr, "psa_asymmetric_decrypt")
               [] OTHER -> {Ret(w, tr, PSA_ERROR_NOT_SUPPORTED)}

aead_crypt_case(m, w, tr, crypt_op) ==
    alloc_two(w, tr)
    \cup read_message_param(w, TwoBuffers(tr), 1, m.len)
    \cup {Ret(w, TwoBuffers(tr) \o << ReadOk(1, m.len), Eng(crypt_op, m.handle, s) >>
                 \o (IF s = PSA_SUCCESS THEN << Write(0, 0, output_length(m.out0)), Write(1, 0, SIZEOF_SIZE_T) >> ELSE << >>)
                 \o << FreeBuf(1), FreeBuf(2) >>, s) : s \in EngineStatus}

aead_on_call(m, w) ==
    LET tr == << ReadOk(0, 0) >>
    IN  read_header(m, w)
        \cup
        IF ~psa_crypto_access_control_is_handle_permitted(w.acl, m.handle, m.client)
        THEN {Ret(w, tr, PSA_ERROR_INVALID_HANDLE)}
        ELSE CASE m.func = "PSA_AEAD_ENCRYPT" -> aead_crypt_case(m, w, tr, "psa_aead_encrypt")
               [] m.func = "PSA_AEAD_DECRYPT" -> aead_crypt_case(m, w, tr, "psa_aead_decrypt")
               [] OTHER -> {Ret(w, tr, PSA_ERROR_NOT_SUPPORTED)}

----------------------------------------------------------------------------
(* Symmetric cipher *)

cipher_update_case(m, w, tr) ==
    alloc_two(w, tr)
    \cup read_message_param(w, TwoBuffers(tr), 1, m.len)
    \cup {Ret(w, TwoBuffers(tr) \o << ReadOk(1, m.len), Eng("psa_cipher_update", Rhandle(m, w), s) >>
                 \o (IF s = PSA_SUCCESS THEN << Write(0, 0, output_length(m.out0)), Write(1, 0, SIZEOF_SIZE_T) >> ELSE << >>)
                 \o << FreeBuf(1), FreeBuf(2) >>, s) : s \in EngineStatus}

cipher_finish_case(m, w, tr) ==
    {Ret(w, Append(tr, AllocBufFail(1)), PSA_ERROR_INSUFFICIENT_MEMORY)}
    \cup {Ret(w, tr \o << AllocBuf(1), Eng("psa_cipher_finish", Rhandle(m, w), s) >>
                 \o (IF s = PSA_SUCCESS THEN << Write(0, 0, output_length(m.out0)), Write(1, 0, SIZEOF_SIZE_T) >> ELSE << >>)
                 \o << FreeBuf(1) >>, s) : s \in EngineStatus}

symmetric_on_call(m, w) ==
    LET tr == << ReadOk(0, 0) >>
    IN  read_header(m, w)
        \cup
        CASE m.func = "PSA_CIPHER_ENCRYPT_SETUP" ->
                key_setup_case(m, w, tr, "psa_cipher_encrypt_setup")
          [] m.func = "PSA_CIPHER_DECRYPT_SETUP" ->
                key_setup_case(m, w, tr, "psa_cipher_decrypt_setup")
          [] m.func = "PSA_CIPHER_GENERATE_IV" ->
                {Ret(w, Append(tr, Eng("psa_cipher_generate_iv", Rhandle(m, w), s))
                        \o (IF s = PSA_SUCCESS THEN << Write(0, 0, output_length(m.out0)), Write(1, 0, SIZEOF_SIZE_T) >> ELSE << >>), s)
                   : s \in EngineStatus}
          [] m.func = "PSA_CIPHER_SET_IV" ->
                read_message_param(w, tr, 1, m.len)
                \cup {Ret(w, tr \o << ReadOk(1, m.len), Eng("psa_cipher_set_iv", Rhandle(m, w), s) >>, s)
                        : s \in EngineStatus}
          [] m.func = "PSA_CIPHER_UPDATE" -> cipher_update_case(m, w, tr)
          [] m.func = "PSA_CIPHER_FINISH" -> cipher_finish_case(m, w, tr)
          [] m.func = "PSA_CIPHER_ABORT" ->
                {Ret(w, Append(tr, Eng("psa_cipher_abort", Rhandle(m, w), s)), s) : s \in EngineStatus}
          [] OTHER -> {Ret(w, tr, PSA_ERROR_NOT_SUPPORTED)}

----------------------------------------------------------------------------
(* Entropy injection and random generation *)

\* MBEDTLS_ENTROPY_NV_SEED && MBEDTLS_PSA_HAS_ITS_IO in the build at hand
ENTROPY_NV_SEED_BUILT == TRUE

entropy_on_call(m, w) ==
    IF ~ENTROPY_NV_SEED_BUILT
    THEN {Ret(w, << >>, PSA_ERROR_NOT_SUPPORTED)}
    ELSE IF m.in0 # "fits"
    THEN {Ret(w, << >>, PSA_ERROR_INVALID_ARGUMENT)}
    ELSE {Ret(w, << AllocBufFail(1) >>, PSA_ERROR_INSUFFICIENT_MEMORY)}
         \cup read_message_param(w, << AllocBuf(1) >>, 0, 0)
         \cup {Ret(w, << AllocBuf(1), ReadOk(0, 0), Eng("mbedtls_psa_inject_entropy", 0, s),
                         FreeBuf(1) >>, s) : s \in EngineStatus}

rng_on_call(m, w) ==
    {Ret(w, << AllocBufFail(1) >>, PSA_ERROR_INSUFFICIENT_MEMORY)}
    \cup {Ret(w, << AllocBuf(1), Eng("psa_generate_random", 0, s) >>
                 \o (IF s = PSA_SUCCESS THEN << Write(0, 0, output_length(m.out0)) >> ELSE << >>)
                 \o << FreeBuf(1) >>, s) : s \in EngineStatus}

----------------------------------------------------------------------------
(* Key management: psa_key_management_operation *)

Permitted(m, w) ==
    psa_crypto_access_control_is_handle_permitted(w.acl, m.handle, m.client)

InvalidHandle(w, tr) == {Ret(w, tr, PSA_ERROR_INVALID_HANDLE)}

\* PSA_GET_KEY_LIFETIME, PSA_GET_KEY_POLICY: engine, then the result is written
km_get_case(m, w, tr, get_op) ==
    IF ~Permitted(m, w)
    THEN InvalidHandle(w, tr)
    ELSE {Ret(w, Append(tr, Eng(get_op, m.handle, s))
                 \o (IF s = PSA_SUCCESS THEN << Write(0, 0, output_length(m.out0)) >> ELSE << >>), s)
            : s \in EngineStatus}

km_set_policy_case(m, w, tr) ==
    IF ~Permitted(m, w)
    THEN InvalidHandle(w, tr)
    ELSE read_message_param(w, tr, 1, m.len)
         \cup {Ret(w, tr \o << ReadOk(1, m.len), Eng("psa_set_key_policy", m.handle, s) >>, s)
                 : s \in EngineStatus}

km_import_case(m, w, tr) ==
    IF ~Permitted(m, w)
    THEN InvalidHandle(w, tr)
    ELSE {Ret(w, Append(tr, AllocBufFail(1)), PSA_ERROR_INSUFFICIENT_MEMORY)}
         \cup read_message_param(w, Append(tr, AllocBuf(1)), 1, m.len)
         \cup {Ret(w, tr \o << AllocBuf(1), ReadOk(1, m.len),
                               Eng("psa_import_key", m.handle, s), FreeBuf(1) >>, s)
                 : s \in EngineStatus}

\* PSA_DESTROY_KEY, PSA_CLOSE_KEY: the handle is unregistered when the engine succeeds
km_remove_case(m, w, tr, remove_op) ==
    IF ~Permitted(m, w)
    THEN InvalidHandle(w, tr)
    ELSE { IF s = PSA_SUCCESS
           THEN Ret([w EXCEPT !.acl = psa_crypto_access_control_unregister_handle(@, m.handle)],
                    tr \o << Eng(remove_op, m.handle, s),
                             Ev("unregister_handle", m.handle, 0, "") >>, s)
           ELSE Ret(w, Append(tr, Eng(remove_op, m.handle, s)), s)
           : s \in EngineStatus }

\* the two results are written whatever the status, each when its output
\* parameter can hold it
km_get_information_case(m, w, tr) ==
    LET writes == (IF m.out0 >= SIZEOF_PSA_KEY_TYPE
                   THEN << Write(0, 0, SIZEOF_PSA_KEY_TYPE) >> ELSE << >>)
                  \o (IF m.out1 >= SIZEOF_SIZE_T
                      THEN << Write(1, 0, SIZEOF_SIZE_T) >> ELSE << >>)
    IN  IF Permitted(m, w)
        THEN {Ret(w, Append(tr, Eng("psa_get_key_information", m.handle, s)) \o writes, s)
                : s \in EngineStatus}
        ELSE {Ret(w, tr \o writes, PSA_ERROR_INVALID_HANDLE)}

\* the export without the access check
km_export_case_Unchecked(m, w, tr, export_op) ==
    {Ret(w, Append(tr, AllocBufFail(1)), PSA_ERROR_INSUFFICIENT_MEMORY)}
    \cup {Ret(w, tr \o << AllocBuf(1), Eng(export_op, m.handle, s) >>
                 \o (IF s = PSA_SUCCESS THEN << Write(0, 0, output_length(m.out0)) >> ELSE << >>)
                 \o << Write(1, 0, SIZEOF_SIZE_T), FreeBuf(1) >>, s) : s \in EngineStatus}

\* PSA_EXPORT_KEY, PSA_EXPORT_PUBLIC_KEY: data_length is written whatever the status
km_export_case(m, w, tr, export_op) ==
    IF ~Permitted(m, w)
    THEN InvalidHandle(w, tr)
    ELSE {Ret(w, Append(tr, AllocBufFail(1)), PSA_ERROR_INSUFFICIENT_MEMORY)}
         \cup {Ret(w, tr \o << AllocBuf(1), Eng(export_op, m.handle, s) >>
                      \o (IF s = PSA_SUCCESS THEN << Write(0, 0, output_length(m.out0)) >> ELSE << >>)
                      \o << Write(1, 0, SIZEOF_SIZE_T), FreeBuf(1) >>, s) : s \in EngineStatus}

km_generate_case(m, w, tr) ==
    IF ~Permitted(m, w)
    THEN InvalidHandle(w, tr)
    ELSE read_message_param(w, tr, 1, m.len)
         \cup
         IF m.key_type = "PSA_KEY_TYPE_RSA_KEYPAIR" /\ m.len2 # 0
         THEN {Ret(w, tr \o << ReadOk(1, m.len), AllocBufFail(1) >>,
                   PSA_ERROR_INSUFFICIENT_MEMORY)}
              \cup read_message_param(w, tr \o << ReadOk(1, m.len), AllocBuf(1) >>, 2, 0)
              \cup {Ret(w, tr \o << ReadOk(1, m.len), AllocBuf(1), ReadOk(2, 0),
                                    Eng("psa_generate_key", m.handle, s), FreeBuf(1) >>, s)
                      : s \in EngineStatus}
         ELSE {Ret(w, tr \o << ReadOk(1, m.len), Eng("psa_generate_key", m.handle, s),
                               Ev("free", NULL, 1, "scratch") >>, s)
                 : s \in EngineStatus}

\* the new handle written back before it is registered
km_new_handle_WriteFirst(m, w, tr, new_op, h, s) ==
    IF s = PSA_SUCCESS
    THEN Ret([w EXCEPT !.acl = psa_crypto_access_control_register_handle(@, h, m.client)],
             tr \o << Eng(new_op, h, s), Write(0, h, SIZEOF_PSA_KEY_HANDLE), Ev("register_handle", h, m.client, "") >>, s)
    ELSE Ret(w, Append(tr, Eng(new_op, 0, s)), s)

\* the engine produced handle h: it is registered, then written back
km_new_handle(m, w, tr, new_op, h, s) ==
    IF s = PSA_SUCCESS
    THEN Ret([w EXCEPT !.acl = psa_crypto_access_control_register_handle(@, h, m.client)],
             tr \o << Eng(new_op, h, s), Ev("register_handle", h, m.client, ""), Write(0, h, SIZEOF_PSA_KEY_HANDLE) >>, s)
    ELSE Ret(w, Append(tr, Eng(new_op, 0, s)), s)

km_allocate_case(m, w, tr) ==
    {km_new_handle(m, w, tr, "psa_allocate_key", h, s) : h \in Handles, s \in EngineStatus}

\* PSA_CREATE_KEY, PSA_OPEN_KEY: the 4-byte client key id is read first
km_create_open_case(m, w, tr, new_op) ==
    read_message_param(w, tr, 1, m.len)
    \cup
    IF m.len # CLIENT_PSA_KEY_ID_SIZE_IN_BYTES
    THEN {Panic(w, Append(tr, ReadOk(1, m.len)))}
    ELSE {km_new_handle(m, w, Append(tr, ReadOk(1, m.len)), new_op, h, s)
            : h \in Handles, s \in EngineStatus}

km_call(m, w) ==
    IF m.in0 # "fits"
    THEN {Ret(w, << >>, PSA_ERROR_COMMUNICATION_FAILURE)}
    ELSE LET tr == << ReadOk(0, 0) >>
         IN  read_message_param(w, << >>, 0, 0)
             \cup
             CASE m.func = "PSA_GET_KEY_LIFETIME" -> km_get_case(m, w, tr, "psa_get_key_lifetime")
               [] m.func = "PSA_SET_KEY_POLICY" -> km_set_policy_case(m, w, tr)
               [] m.func = "PSA_GET_KEY_POLICY" -> km_get_case(m, w, tr, "psa_get_key_policy")
               [] m.func = "PSA_IMPORT_KEY" -> km_import_case(m, w, tr)
               [] m.func = "PSA_DESTROY_KEY" -> km_remove_case(m, w, tr, "psa_destroy_key")
               [] m.func = "PSA_GET_KEY_INFORMATION" -> km_get_information_case(m, w, tr)
               [] m.func = "PSA_EXPORT_KEY" -> km_export_case(m, w, tr, "psa_export_key")
               [] m.func = "PSA_EXPORT_PUBLIC_KEY" ->
                     km_export_case(m, w, tr, "psa_export_public_key")
               [] m.func = "PSA_GENERATE_KEY" -> km_generate_case(m, w, tr)
               [] m.func = "PSA_ALLOCATE_KEY" -> km_allocate_case(m, w, tr)
               [] m.func = "PSA_CREATE_KEY" -> km_create_open_case(m, w, tr, "psa_create_key")
               [] m.func = "PSA_OPEN_KEY" -> km_create_open_case(m, w, tr, "psa_open_key")
               [] m.func = "PSA_CLOSE_KEY" -> km_remove_case(m, w, tr, "psa_close_key")
               [] OTHER -> {Ret(w, tr, PSA_ERROR_NOT_SUPPORTED)}

\* a handler end that forgets the reply
reply_status_Silent(o) == o

\* psa_reply(msg->handle, status) at the end of a handler that was not stopped
reply_status(o) ==
    IF o.panic THEN o ELSE [o EXCEPT !.tr = Append(@, Reply(o.st))]

\* the key-management entry that takes a connect or a disconnect for a call
psa_key_management_operation_ConnectAsCall(m, w) ==
    LET outs == CASE m.type \in {PSA_IPC_CONNECT, PSA_IPC_DISCONNECT, PSA_IPC_CALL} ->
                        km_call(m, w)
                  [] OTHER -> {Panic(w, << >>)}
    IN  {reply_status(o) : o \in outs}

psa_key_management_operation(m, w) ==
    LET outs == CASE m.type \in {PSA_IPC_CONNECT, PSA_IPC_DISCONNECT} ->
                        {Ret(w, << >>, PSA_SUCCESS)}
                  [] m.type = PSA_IPC_CALL -> km_call(m, w)
                  [] OTHER -> {Panic(w, << >>)}
    IN  {reply_status(o) : o \in outs}

----------------------------------------------------------------------------
(* Key derivation and agreement: psa_crypto_generator_operations *)

generator_read_case(m, w, tr) ==
    {Ret(w, Append(tr, AllocBufFail(1)), PSA_ERROR_INSUFFICIENT_MEMORY)}
    \cup {Ret(w, tr \o << AllocBuf(1), Eng("psa_generator_read", Rhandle(m, w), s) >>
                 \o (IF s = PSA_SUCCESS THEN << Write(0, 0, output_length(m.out0)) >> ELSE << >>)
                 \o << FreeBuf(1) >>, s) : s \in EngineStatus}

\* the bytes read are compared with sizeof(type) and sizeof(bits)
\* psa_read of n bytes (msg->in_size[slot]) checked with bytes_read != size:
\* the transport delivers n bytes, or fewer; go tells whether the check passes
checked_read(tr, slot, n, size) ==
    {[tr |-> Append(tr, ReadOk(slot, n)), go |-> n = size],
     [tr |-> Append(tr, ReadShort(slot, n)), go |-> FALSE]}
    \cup (IF size < n
          THEN {[tr |-> Append(tr, ReadShortOfCheckedSize(slot, n)), go |-> TRUE]}
          ELSE {})

generator_import_key_case(m, w, tr) ==
    IF ~Permitted(m, w)
    THEN InvalidHandle(w, tr)
    ELSE LET type_read == checked_read(tr, 1, m.len, SIZEOF_PSA_KEY_TYPE)
             bits_read(t) == checked_read(t, 2, m.len2, SIZEOF_SIZE_T)
         IN  {Panic(w, r1.tr) : r1 \in {r \in type_read : ~r.go}}
             \cup
             UNION { {Panic(w, r2.tr) : r2 \in {r \in bits_read(r1.tr) : ~r.go}}
                     \cup
                     {Ret(w, Append(r2.tr, Eng("psa_generator_import_key", m.handle, s)), s)
                        : r2 \in {r \in bits_read(r1.tr) : r.go}, s \in EngineStatus}
                     : r1 \in {r \in type_read : r.go} }

\* the derivation that goes on with the label buffer calloc refused
key_derivation_case_Unchecked(m, w, tr) ==
    IF ~Permitted(m, w)
    THEN InvalidHandle(w, tr)
    ELSE {Ret(w, Append(tr, AllocBufFail(1)), PSA_ERROR_INSUFFICIENT_MEMORY)}
         \cup read_message_param(w, Append(tr, AllocBuf(1)), 1, m.len)
         \cup {Ret(w, tr \o << AllocBuf(1), ReadOk(1, m.len), AllocBufFail(2), ReadOk(2, 0),
                               Eng("psa_key_derivation", m.handle, s), FreeBuf(2), FreeBuf(1) >>, s)
                 : s \in EngineStatus}
         \cup read_message_param(w, tr \o << AllocBuf(1), ReadOk(1, m.len), AllocBuf(2) >>, 2, 0)
         \cup {Ret(w, tr \o << AllocBuf(1), ReadOk(1, m.len), AllocBuf(2), ReadOk(2, 0),
                               Eng("psa_key_derivation", m.handle, s), FreeBuf(2), FreeBuf(1) >>, s)
                 : s \in EngineStatus}

key_derivation_case(m, w, tr) ==
    IF ~Permitted(m, w)
    THEN InvalidHandle(w, tr)
    ELSE {Ret(w, Append(tr, AllocBufFail(1)), PSA_ERROR_INSUFFICIENT_MEMORY)}
         \cup read_message_param(w, Append(tr, AllocBuf(1)), 1, m.len)
         \cup {Ret(w, tr \o << AllocBuf(1), ReadOk(1, m.len), AllocBufFail(2), FreeBuf(1) >>,
                   PSA_ERROR_INSUFFICIENT_MEMORY)}
         \cup read_message_param(w, tr \o << AllocBuf(1), ReadOk(1, m.len), AllocBuf(2) >>, 2, 0)
         \cup {Ret(w, tr \o << AllocBuf(1), ReadOk(1, m.len), AllocBuf(2), ReadOk(2, 0),
                               Eng("psa_key_derivation", m.handle, s), FreeBuf(2), FreeBuf(1) >>, s)
                 : s \in EngineStatus}

key_agreement_case(m, w, tr) ==
    IF ~Permitted(m, w)
    THEN InvalidHandle(w, tr)
    ELSE {Ret(w, Append(tr, AllocBufFail(1)), PSA_ERROR_INSUFFICIENT_MEMORY)}
         \cup read_message_param(w, Append(tr, AllocBuf(1)), 1, m.len)
         \cup {Ret(w, tr \o << AllocBuf(1), ReadOk(1, m.len),
                               Eng("psa_key_agreement", m.handle, s), FreeBuf(1) >>, s)
                 : s \in EngineStatus}

generator_call(m, w) ==
    IF m.in0 # "fits"
    THEN {Ret(w, << >>, PSA_ERROR_COMMUNICATION_FAILURE)}
    ELSE LET tr == << ReadOk(0, 0) >>
         IN  read_message_param(w, << >>, 0, 0)
             \cup
             CASE m.func = "PSA_GET_GENERATOR_CAPACITY" ->
                     {Ret(w, Append(tr, Eng("psa_get_generator_capacity", Rhandle(m, w), s))
                             \o (IF s = PSA_SUCCESS THEN << Write(0, 0, SIZEOF_SIZE_T) >>
                                                     ELSE << >>), s)
                        : s \in EngineStatus}
               [] m.func = "PSA_GENERATOR_READ" -> generator_read_case(m, w, tr)
               [] m.func = "PSA_GENERATOR_IMPORT_KEY" -> generator_import_key_case(m, w, tr)
               [] m.func = "PSA_GENERATOR_ABORT" ->
                     {Ret(w, Append(tr, Eng("psa_generator_abort", Rhandle(m, w), s)), s)
                        : s \in EngineStatus}
               [] m.func = "PSA_KEY_DERIVATION" -> key_derivation_case(m, w, tr)
               [] m.func = "PSA_KEY_AGREEMENT" -> key_agreement_case(m, w, tr)
               [] OTHER -> {Ret(w, tr, PSA_ERROR_NOT_SUPPORTED)}

psa_crypto_generator_operations(m, w) ==
    LET outs == CASE m.type = PSA_IPC_CONNECT -> context_on_connect(m, w)
                  [] m.type = PSA_IPC_CALL -> generator_call(m, w)
                  [] m.type = PSA_IPC_DISCONNECT ->
                        context_on_disconnect(m, w, "psa_generator_abort")
                  [] OTHER -> {Panic(w, << >>)}
    IN  {reply_status(o) : o \in outs}

----------------------------------------------------------------------------
(* message_handler: the generic connect / call / disconnect dispatcher; a    *)
(* handler the service kind does not register (NULL) leaves PSA_SUCCESS      *)

\* a call through a handler pointer: NULL leaves status at PSA_SUCCESS
Invoke(handler, m, w) ==
    CASE handler = "NULL" -> {Ret(w, << >>, PSA_SUCCESS)}
      [] handler = "crypto_init_on_call" -> crypto_init_on_call(m, w)
      [] handler = "crypto_free_on_call" -> crypto_free_on_call(m, w)
      [] handler = "mac_on_connect" -> mac_on_connect(m, w)
      [] handler = "mac_on_call" -> mac_on_call(m, w)
      [] handler = "mac_on_disconnect" -> mac_on_disconnect(m, w)
      [] handler = "hash_on_connect" -> hash_on_connect(m, w)
      [] handler = "hash_on_call" -> hash_on_call(m, w)
      [] handler = "hash_on_disconnect" -> hash_on_disconnect(m, w)
      [] handler = "symmetric_on_connect" -> symmetric_on_connect(m, w)
      [] handler = "symmetric_on_call" -> symmetric_on_call(m, w)
      [] handler = "symmetric_on_disconnect" -> symmetric_on_disconnect(m, w)
      [] handler = "asymmetric_on_call" -> asymmetric_on_call(m, w)
      [] handler = "aead_on_call" -> aead_on_call(m, w)
      [] handler = "rng_on_call" -> rng_on_call(m, w)
      [] handler = "entropy_on_call" -> entropy_on_call(m, w)

\* message_handler that lets a message of an unexpected type through
message_handler_Tolerant(m, w, connect_handler, call_handler, disconnect_handler) ==
    LET outs == CASE m.type = PSA_IPC_CONNECT -> Invoke(connect_handler, m, w)
                  [] m.type = PSA_IPC_CALL -> Invoke(call_handler, m, w)
                  [] m.type = PSA_IPC_DISCONNECT -> Invoke(disconnect_handler, m, w)
                  [] OTHER -> {Ret(w, << >>, PSA_SUCCESS)}
    IN  {reply_status(o) : o \in outs}

message_handler(m, w, connect_handler, call_handler, disconnect_handler) ==
    LET outs == CASE m.type = PSA_IPC_CONNECT -> Invoke(connect_handler, m, w)
                  [] m.type = PSA_IPC_CALL -> Invoke(call_handler, m, w)
                  [] m.type = PSA_IPC_DISCONNECT -> Invoke(disconnect_handler, m, w)
                  [] OTHER -> {Panic(w, << >>)}
    IN  {reply_status(o) : o \in outs}

----------------------------------------------------------------------------
(* The Secure Channel: connections and the messages clients may send *)

Closed == [kind |-> "none", client |-> 0, rhandle |-> NULL]

NoMsg ==
    [kind |-> "none", type |-> "none", chan |-> 0, client |-> 0, in0 |-> "fits",
     func |-> "", handle |-> 0, len |-> 0, len2 |-> 0, index |-> 0, key_type |-> "",
     size |-> 0, out0 |-> 0, out1 |-> 0]

\* a message without call parameters
Msg(k, t, chan, client) ==
    [NoMsg EXCEPT !.kind = k, !.type = t, !.chan = chan, !.client = client]

\* msg->out_size[0] of a call whose client declares room for the result
OutCapacity == 16

\* a call: in0 tells whether in_size[0] is the size the handler expects, len is
\* in_size[1], len2 is in_size[2]; func, handle, key_type are header fields; index
\* is the clone index a CLONE_END carries in parameter 1
Call(k, chan, client, func, handle, len) ==
    [Msg(k, PSA_IPC_CALL, chan, client) EXCEPT !.func = func, !.handle = handle, !.len = len,
                                               !.out0 = OutCapacity, !.out1 = SIZEOF_SIZE_T]

\* PSA_MAC_SIGN_FINISH / PSA_HASH_FINISH: parameter 1 carries the size of the
\* result buffer; the client declares room for it and for its length, or less
FinishCalls(k, chan, client, f) ==
    {[Call(k, chan, client, f, 0, SIZEOF_SIZE_T)
         EXCEPT !.size = OutCapacity, !.out0 = c[1], !.out1 = c[2]]
       : c \in {<<OutCapacity, SIZEOF_SIZE_T>>, <<OutCapacity \div 2, SIZEOF_SIZE_T>>,
                <<OutCapacity, 0>>}}

UNKNOWN_FUNC == "PSA_CRYPTO_INVALID"

\* calls of the kinds that read the header without looking at in_size[0], with
\* a parameter 0 shorter or longer than the header; func and handle are the
\* fields the handler finds in its header structure after the read
OddHeaderCalls(k, chan, client, func, handles) ==
    {[Call(k, chan, client, func, h, 0) EXCEPT !.in0 = z]
       : h \in handles, z \in {"short", "long"}}

KeyMngHandleFuncs ==
    { "PSA_GET_KEY_LIFETIME", "PSA_SET_KEY_POLICY", "PSA_GET_KEY_POLICY", "PSA_IMPORT_KEY",
      "PSA_DESTROY_KEY", "PSA_GET_KEY_INFORMATION", "PSA_EXPORT_KEY",
      "PSA_EXPORT_PUBLIC_KEY", "PSA_CLOSE_KEY" }

\* clients stop repeating CLONE_BEGIN once the slot of their pair counts MaxRefCount
MayCloneBegin(w, chan, client) ==
    \A i \in CloneIdx :
        (w.clones[i].partition_id = client
           /\ w.clones[i].source_operation = w.conns[chan].rhandle)
        => w.clones[i].ref_count < MaxRefCount

CallMsgs(k, chan, client, w, lens) ==
    CASE k = "PSA_CRYPTO_INIT" ->
            IF w.counter < MaxCounter THEN {Call(k, chan, client, "", 0, 0)} ELSE {}
      [] k \in {"PSA_CRYPTO_FREE", "PSA_RNG"} -> {Call(k, chan, client, "", 0, 0)}
      [] k = "PSA_ENTROPY_INJECT" ->
            {[Call(k, chan, client, "", 0, 0) EXCEPT !.in0 = z] : z \in {"fits", "wrong"}}
      [] k = "PSA_MAC" ->
            {Call(k, chan, client, f, h, 0)
               : f \in {"PSA_MAC_SIGN_SETUP", "PSA_MAC_VERIFY_SETUP"}, h \in Handles}
            \cup {Call(k, chan, client, "PSA_MAC_UPDATE", 0, n) : n \in lens}
            \cup FinishCalls(k, chan, client, "PSA_MAC_SIGN_FINISH")
            \cup {Call(k, chan, client, "PSA_MAC_VERIFY_FINISH", 0, SIZEOF_SIZE_T)}
            \cup {Call(k, chan, client, "PSA_MAC_ABORT", 0, 0)}
            \cup OddHeaderCalls(k, chan, client, "PSA_MAC_ABORT", {0})
            \cup {Call(k, chan, client, UNKNOWN_FUNC, h, 0) : h \in {0} \cup Handles}
      [] k = "PSA_HASH" ->
            {Call(k, chan, client, "PSA_HASH_UPDATE", 0, n) : n \in lens}
            \cup FinishCalls(k, chan, client, "PSA_HASH_FINISH")
            \cup {Call(k, chan, client, "PSA_HASH_VERIFY", 0, SIZEOF_SIZE_T)}
            \cup OddHeaderCalls(k, chan, client, "PSA_HASH_SETUP", {0})
            \cup {Call(k, chan, client, f, 0, 0)
                    : f \in {"PSA_HASH_SETUP", "PSA_HASH_ABORT"}}
            \cup {Call(k, chan, client, UNKNOWN_FUNC, h, 0) : h \in {0} \cup Handles}
            \cup (IF MayCloneBegin(w, chan, client)
                  THEN {Call(k, chan, client, "PSA_HASH_CLONE_BEGIN", 0, 0)} ELSE {})
            \cup {[Call(k, chan, client, "PSA_HASH_CLONE_END", 0, SIZEOF_SIZE_T)
                      EXCEPT !.index = i] : i \in 0..MAX_CONCURRENT_HASH_CLONES}
      [] k = "PSA_SYMMETRIC" ->
            {Call(k, chan, client, f, h, 0)
               : f \in {"PSA_CIPHER_ENCRYPT_SETUP", "PSA_CIPHER_DECRYPT_SETUP"}, h \in Handles}
            \cup {Call(k, chan, client, f, 0, n)
                    : f \in {"PSA_CIPHER_SET_IV", "PSA_CIPHER_UPDATE"}, n \in {0, 16}}
            \cup {Call(k, chan, client, f, 0, 0)
                    : f \in {"PSA_CIPHER_GENERATE_IV", "PSA_CIPHER_FINISH", "PSA_CIPHER_ABORT"}}
            \cup OddHeaderCalls(k, chan, client, "PSA_CIPHER_ABORT", {0})
            \cup {Call(k, chan, client, UNKNOWN_FUNC, h, 0) : h \in {0} \cup Handles}
      [] k = "PSA_ASYMMETRIC" ->
            {Call(k, chan, client, f, h, 32)
               : f \in {"PSA_ASYMMETRIC_SIGN", "PSA_ASYMMETRIC_VERIFY", "PSA_ASYMMETRIC_ENCRYPT",
                        "PSA_ASYMMETRIC_DECRYPT", UNKNOWN_FUNC}, h \in Handles}
            \cup OddHeaderCalls(k, chan, client, UNKNOWN_FUNC, Handles)
      [] k = "PSA_AEAD" ->
            {Call(k, chan, client, f, h, 32)
               : f \in {"PSA_AEAD_ENCRYPT", "PSA_AEAD_DECRYPT", UNKNOWN_FUNC}, h \in Handles}
            \cup OddHeaderCalls(k, chan, client, UNKNOWN_FUNC, Handles)
      [] k = "PSA_KEY_MNG" ->
            {[Call(k, chan, client, UNKNOWN_FUNC, 0, 0) EXCEPT !.in0 = "wrong"]}
            \cup {Call(k, chan, client, f, h, 16) : f \in KeyMngHandleFuncs, h \in Handles}
            \cup {[Call(k, chan, client, "PSA_GENERATE_KEY", h, SIZEOF_SIZE_T)
                      EXCEPT !.key_type = t, !.len2 = n]
                    : h \in Handles, t \in {"PSA_KEY_TYPE_RSA_KEYPAIR", "PSA_KEY_TYPE_AES"},
                      n \in {0, 4}}
            \cup {Call(k, chan, client, f, 0, n)
                    : f \in {"PSA_CREATE_KEY", "PSA_OPEN_KEY"}, n \in {0, 4, 8}}
            \cup {Call(k, chan, client, "PSA_ALLOCATE_KEY", 0, 0)}
            \cup {Call(k, chan, client, UNKNOWN_FUNC, h, 0) : h \in {0} \cup Handles}
      [] k = "PSA_GENERATOR" ->
            {[Call(k, chan, client, UNKNOWN_FUNC, 0, 0) EXCEPT !.in0 = "wrong"]}
            \cup {[Call(k, chan, client, "PSA_GENERATOR_IMPORT_KEY", h, n) EXCEPT !.len2 = n2]
                    : h \in Handles, n \in {4, 8}, n2 \in {4, 8}}
            \cup {Call(k, chan, client, f, h, 16)
                    : f \in {"PSA_KEY_DERIVATION", "PSA_KEY_AGREEMENT"}, h \in Handles}
            \cup {Call(k, chan, client, f, 0, 0)
                    : f \in {"PSA_GET_GENERATOR_CAPACITY", "PSA_GENERATOR_READ",
                             "PSA_GENERATOR_ABORT"}}
            \cup {Call(k, chan, client, UNKNOWN_FUNC, h, 0) : h \in {0} \cup Handles}

\* a call with a header of the expected length, room for its results, and no
\* handle next to an operation code the kind does not know
Plain(m) ==
    /\ m.in0 \notin {"short", "long"}
    /\ m.out0 = OutCapacity
    /\ m.out1 = SIZEOF_SIZE_T
    /\ m.func = UNKNOWN_FUNC => m.handle = 0

\* clients that keep several connections open at the same time send plain calls
Sendable(calls, sc) == IF sc.chans > 1 THEN {m \in calls : Plain(m)} ELSE calls

\* the messages the SPM may hand out for service kind k: a call or a disconnect
\* comes on an open connection of that kind, from the client that opened it
Messages(k, w, sc) ==
    LET closed == IF Cardinality({c \in Chan : w.conns[c].kind # "none"}) < sc.chans
                  THEN {c \in Chan : w.conns[c].kind = "none"}
                  ELSE {}
        open == {c \in Chan : w.conns[c].kind = k}
    IN  {Msg(k, OTHER_TYPE, 0, c) : c \in Clients}
        \cup
        IF k \in ContextKinds
        THEN (IF closed = {} THEN {}
              ELSE {Msg(k, PSA_IPC_CONNECT, Lowest(closed), c) : c \in Clients})
             \cup {Msg(k, PSA_IPC_DISCONNECT, ch, w.conns[ch].client) : ch \in open}
             \cup UNION {Sendable(CallMsgs(k, ch, w.conns[ch].client, w, sc.lens), sc)
                           : ch \in open}
        ELSE {Msg(k, t, 0, c) : t \in {PSA_IPC_CONNECT, PSA_IPC_DISCONNECT}, c \in Clients}
             \cup UNION {CallMsgs(k, 0, c, w, sc.lens) : c \in Clients}

\* what the SPM does with the connection once the message is replied to
spm_after_reply(m, o) ==
    IF o.panic \/ m.chan \notin Chan
    THEN o.w.conns
    ELSE IF m.type = PSA_IPC_CONNECT
    THEN IF o.st = PSA_SUCCESS
         THEN [o.w.conns EXCEPT ![m.chan].kind = m.kind, ![m.chan].client = m.client]
         ELSE [o.w.conns EXCEPT ![m.chan] = Closed]
    ELSE IF m.type = PSA_IPC_DISCONNECT
    THEN [o.w.conns EXCEPT ![m.chan] = Closed]
    ELSE o.w.conns

----------------------------------------------------------------------------
(* crypto_main *)

\* the registrations standing after the calls logged in tr
RECURSIVE Registrations(_, _)
Registrations(r, tr) ==
    IF tr = << >>
    THEN r
    ELSE LET e == Head(tr)
         IN  Registrations(
                 CASE e.op = "register_handle" -> [r EXCEPT ![e.a] = e.b]
                   [] e.op = "unregister_handle" -> [r EXCEPT ![e.a] = 0]
                   [] e.op \in {"psa_crypto_access_control_init",
                                "psa_crypto_access_control_destroy"} -> [h \in Handles |-> 0]
                   [] OTHER -> r,
                 Tail(tr))

\* the engine's state after the calls logged in tr
RECURSIVE EngineUp(_, _)
EngineUp(up, tr) ==
    IF tr = << >>
    THEN up
    ELSE LET e == Head(tr)
         IN  EngineUp(CASE e.op = "psa_crypto_init" /\ e.st = PSA_SUCCESS -> TRUE
                        [] e.op = "mbedtls_psa_crypto_free" -> FALSE
                        [] OTHER -> up,
                      Tail(tr))

\* the clients' init / free accounts after message m with outcome o
Requests(b, m, o) ==
    IF m.type # PSA_IPC_CALL \/ o.panic
    THEN b
    ELSE IF m.kind = "PSA_CRYPTO_INIT" /\ o.st = PSA_SUCCESS
    THEN [b EXCEPT ![m.client] = @ + 1]
    ELSE IF m.kind = "PSA_CRYPTO_FREE"
    THEN [b EXCEPT ![m.client] = @ - 1]
    ELSE b

\* the frees a client may be ahead of its successful inits: clients of the
\* lifecycle services alone may send up to MaxFreeAhead frees they have no init
\* for, clients that use other services as well free only what they initialised
FreeAhead ==
    IF scope.kinds \subseteq {"PSA_CRYPTO_INIT", "PSA_CRYPTO_FREE"} THEN MaxFreeAhead ELSE 0

MaySend(m) ==
    (m.kind = "PSA_CRYPTO_FREE" /\ m.type = PSA_IPC_CALL)
        => balance[m.client] > 0 - FreeAhead

----------------------------------------------------------------------------
(* Composite key identifiers *)

LIMB == 65536

\* a 32-bit value is two 16-bit limbs, a 64-bit value four, the most
\* significant first
Uint32Values == {<<hi, lo>> : hi \in {0, 1, LIMB - 1}, lo \in {0, 1, LIMB - 1}}

\* int32_t partition ids
PartitionIds == {-2147483647, -LIMB, -1, 0, 1, LIMB - 1, LIMB, 2147483647}

\* (uint32_t)partition_id
Uint32(i) == << (i \div LIMB) % LIMB, i % LIMB >>

\* a 32-bit value in a 64-bit variable
Uint64(v) == << 0, 0, v[1], v[2] >>

ShiftLeft32(x) == << x[3], x[4], 0, 0 >>

RECURSIVE BitOr(_, _)
BitOr(a, b) ==
    IF a = 0 THEN b
    ELSE IF b = 0 THEN a
    ELSE (IF a % 2 = 1 \/ b % 2 = 1 THEN 1 ELSE 0) + 2 * BitOr(a \div 2, b \div 2)

Or64(x, y) == [i \in 1..4 |-> BitOr(x[i], y[i])]

\* the assembly without the shift of the client's identifier
psa_crypto_access_control_assemble_psa_key_id_NoShift(id, partition_id) ==
    Or64(id, Uint64(Uint32(partition_id)))

\* *id <<= 32; *id |= (uint32_t)partition_id;
psa_crypto_access_control_assemble_psa_key_id(id, partition_id) ==
    Or64(ShiftLeft32(id), Uint64(Uint32(partition_id)))

\* psa_key_id_t id; id.owner = msg->client_id; psa_read(..., &(id.key_id), ...)
psa_key_file_id(key_id, owner) == [owner |-> owner, key_id |-> key_id]

\* no update is being transferred
NoTransfer ==
    [len |-> 0, chunk |-> 0, data_remaining |-> 0, bytes_read |-> 0, chunks |-> 0,
     status |-> UNINIT, at |-> "none"]

\* no message is known to be pending and no signal is known to fail
NoPending == [msgs |-> {}, failing |-> {}]

NoAssembly == [k1 |-> <<0, 0>>, p1 |-> 0, k2 |-> <<0, 0>>, p2 |-> 0,
               id1 |-> << >>, id2 |-> << >>, by |-> "none"]

World == [counter |-> counter, clones |-> clones, acl |-> acl, conns |-> conns, heap |-> heap]

NextSignal == KindOrder[Lowest({KindIndex(k) : k \in todo})]

Init ==
    /\ scope \in Profiles
    /\ pc = "loop"
    /\ todo = {}
    /\ msg = NoMsg
    /\ trace = << >>
    /\ counter = 0
    /\ clones = NoClones
    /\ acl = [h \in Handles |-> 0]
    /\ conns = [c \in Chan |-> Closed]
    /\ heap = {}
    /\ registrant = [h \in Handles |-> 0]
    /\ initialized = FALSE
    /\ balance = [c \in Clients |-> 0]
    /\ assembly = NoAssembly
    /\ pending = NoPending
    /\ transfer = NoTransfer
    /\ pre = [counter |-> 0, clones |-> NoClones, acl |-> [h \in Handles |-> 0],
              conns |-> [c \in Chan |-> Closed], heap |-> {}]

\* psa_wait returns the asserted signals
PsaWait ==
    /\ pc = "loop"
    /\ todo = {}
    /\ \E s \in SUBSET scope.kinds : s # {} /\ todo' = s
    /\ UNCHANGED <<scope, pc, msg, trace, pre, counter, clones, acl, conns, heap, registrant, initialized, balance, assembly, pending, transfer>>

\* psa_get fails: continue, back to psa_wait
PsaGetFails ==
    /\ pc = "loop"
    /\ todo # {}
    /\ todo' = {}
    /\ UNCHANGED <<scope, pc, msg, trace, pre, counter, clones, acl, conns, heap, registrant, initialized, balance, assembly, pending, transfer>>

\* a psa_get that also retrieves while a retrieved message awaits its handler
PsaGet_Reentrant ==
    /\ pc \in {"loop", "handle"}
    /\ todo # {}
    /\ \E m \in Messages(NextSignal, World, scope) : MaySend(m) /\ msg' = m
    /\ pc' = "handle"
    /\ trace' = << >>
    /\ pre' = World
    /\ UNCHANGED <<scope, todo, counter, clones, acl, conns, heap, registrant, initialized, balance, assembly, pending, transfer>>

\* psa_get retrieves the message of the next asserted signal
PsaGet ==
    /\ pc = "loop"
    /\ todo # {}
    /\ \E m \in Messages(NextSignal, World, scope) : MaySend(m) /\ msg' = m
    /\ pc' = "handle"
    /\ trace' = << >>
    /\ pre' = World
    /\ UNCHANGED <<scope, todo, counter, clones, acl, conns, heap, registrant, initialized, balance, assembly, pending, transfer>>

\* the handler of msg runs to completion
Run(k, outs) ==
    /\ pc = "handle"
    /\ msg.kind = k
    /\ \E o \in outs :
        /\ trace' = o.tr
        /\ pc' = IF o.panic THEN "panic" ELSE "loop"
        /\ todo' = IF o.panic THEN todo ELSE todo \ {k}
        /\ counter' = o.w.counter
        /\ clones' = o.w.clones
        /\ acl' = o.w.acl
        /\ heap' = o.w.heap
        /\ conns' = spm_after_reply(msg, o)
        /\ registrant' = Registrations(registrant, o.tr)
        /\ initialized' = EngineUp(initialized, o.tr)
        /\ balance' = Requests(balance, msg, o)
    /\ UNCHANGED <<scope, msg, pre, assembly, pending, transfer>>

HandleInit ==
    Run("PSA_CRYPTO_INIT", message_handler(msg, World, "NULL", "crypto_init_on_call", "NULL"))

HandleMac ==
    Run("PSA_MAC", message_handler(msg, World, "mac_on_connect", "mac_on_call", "mac_on_disconnect"))

HandleHash ==
    Run("PSA_HASH", message_handler(msg, World, "hash_on_connect", "hash_on_call", "hash_on_disconnect"))

HandleSymmetric ==
    Run("PSA_SYMMETRIC",
        message_handler(msg, World, "symmetric_on_connect", "symmetric_on_call", "symmetric_on_disconnect"))

HandleAsymmetric ==
    Run("PSA_ASYMMETRIC", message_handler(msg, World, "NULL", "asymmetric_on_call", "NULL"))

HandleAead ==
    Run("PSA_AEAD", message_handler(msg, World, "NULL", "aead_on_call", "NULL"))

HandleKeyMng == Run("PSA_KEY_MNG", psa_key_management_operation(msg, World))

HandleRng ==
    Run("PSA_RNG", message_handler(msg, World, "NULL", "rng_on_call", "NULL"))

HandleFree ==
    Run("PSA_CRYPTO_FREE", message_handler(msg, World, "NULL", "crypto_free_on_call", "NULL"))

HandleGenerator == Run("PSA_GENERATOR", psa_crypto_generator_operations(msg, World))

HandleEntropy ==
    Run("PSA_ENTROPY_INJECT", message_handler(msg, World, "NULL", "entropy_on_call", "NULL"))

Next ==
    \/ PsaWait
    \/ PsaGetFails
    \/ PsaGet
    \/ HandleInit
    \/ HandleMac
    \/ HandleHash
    \/ HandleSymmetric
    \/ HandleAsymmetric
    \/ HandleAead
    \/ HandleKeyMng
    \/ HandleRng
    \/ HandleFree
    \/ HandleGenerator
    \/ HandleEntropy

Spec == Init /\ [][Next]_vars

----------------------------------------------------------------------------
(* The assembly of composite key identifiers on its own: two client key *)
(* identifiers and two callers are drawn, and both are assembled        *)

InitAssemble ==
    /\ scope = Profile({"PSA_KEY_MNG"}, 0, {0})
    /\ pc = "loop"
    /\ todo = {}
    /\ msg = NoMsg
    /\ trace = << >>
    /\ counter = 0
    /\ clones = NoClones
    /\ acl = [h \in Handles |-> 0]
    /\ conns = [c \in Chan |-> Closed]
    /\ heap = {}
    /\ registrant = [h \in Handles |-> 0]
    /\ initialized = FALSE
    /\ balance = [c \in Clients |-> 0]
    /\ pre = [counter |-> 0, clones |-> NoClones, acl |-> [h \in Handles |-> 0],
              conns |-> [c \in Chan |-> Closed], heap |-> {}]
    /\ pending = NoPending
    /\ transfer = NoTransfer
    /\ \E k1 \in Uint32Values, k2 \in Uint32Values, p1 \in PartitionIds, p2 \in PartitionIds :
          assembly = [NoAssembly EXCEPT !.k1 = k1, !.p1 = p1, !.k2 = k2, !.p2 = p2]

\* psa_crypto_access_control_assemble_psa_key_id on the two identifiers
AssembleKeyId ==
    /\ assembly.by = "none"
    /\ assembly' =
          [assembly EXCEPT
              !.id1 = psa_crypto_access_control_assemble_psa_key_id(Uint64(assembly.k1), assembly.p1),
              !.id2 = psa_crypto_access_control_assemble_psa_key_id(Uint64(assembly.k2), assembly.p2),
              !.by = "psa_crypto_access_control_assemble_psa_key_id"]
    /\ UNCHANGED <<scope, pc, todo, msg, trace, pre, counter, clones, acl, conns, heap,
                   registrant, initialized, balance, pending, transfer>>

\* the key file identifier PSA_CREATE_KEY / PSA_OPEN_KEY hand to the engine
AssembleFileId ==
    /\ assembly.by = "none"
    /\ assembly' =
          [assembly EXCEPT !.id1 = psa_key_file_id(assembly.k1, assembly.p1),
                           !.id2 = psa_key_file_id(assembly.k2, assembly.p2),
                           !.by = "psa_key_file_id_t"]
    /\ UNCHANGED <<scope, pc, todo, msg, trace, pre, counter, clones, acl, conns, heap,
                   registrant, initialized, balance, pending, transfer>>

NextAssemble == AssembleKeyId \/ AssembleFileId

SpecAssemble == InitAssemble /\ [][NextAssemble]_vars

----------------------------------------------------------------------------
(* The hash clone slot pool on its own: callers reserve, resolve and destroy *)
(* slots any number of times, with nothing else going on                     *)

\* the callers and the source operations of the pool's clients
CloneCallers == {1}
CloneSources == {1, 2}

InitClones ==
    /\ scope = Profile({"PSA_HASH"}, 0, {0})
    /\ pc = "loop"
    /\ todo = {}
    /\ msg = NoMsg
    /\ trace = << >>
    /\ counter = 0
    /\ clones = NoClones
    /\ acl = [h \in Handles |-> 0]
    /\ conns = [c \in Chan |-> Closed]
    /\ heap = {}
    /\ registrant = [h \in Handles |-> 0]
    /\ initialized = FALSE
    /\ balance = [c \in Clients |-> 0]
    /\ assembly = NoAssembly
    /\ pending = NoPending
    /\ transfer = NoTransfer
    /\ pre = [counter |-> 0, clones |-> NoClones, acl |-> [h \in Handles |-> 0],
              conns |-> [c \in Chan |-> Closed], heap |-> {}]

\* PSA_HASH_CLONE_BEGIN: reserve_hash_clone(msg->client_id, msg->rhandle, &index)
ReserveClone ==
    /\ \E p \in CloneCallers, src \in CloneSources :
          clones' = reserve_hash_clone(clones, p, src).clones
    /\ UNCHANGED <<scope, pc, todo, msg, trace, pre, counter, acl, conns, heap,
                   registrant, initialized, balance, assembly, pending, transfer>>

\* PSA_HASH_CLONE_END: get_hash_clone, then release_hash_clone
ResolveClone ==
    /\ \E p \in CloneCallers, i \in CloneIdx :
          /\ get_hash_clone(clones, i, p) = PSA_SUCCESS
          /\ clones' = release_hash_clone(clones, i)
    /\ UNCHANGED <<scope, pc, todo, msg, trace, pre, counter, acl, conns, heap,
                   registrant, initialized, balance, assembly, pending, transfer>>

\* finish, verify, abort, disconnect: destroy_hash_clone(msg->rhandle)
DestroyClone ==
    /\ \E src \in CloneSources : clones' = destroy_hash_clone(clones, src)
    /\ UNCHANGED <<scope, pc, todo, msg, trace, pre, counter, acl, conns, heap,
                   registrant, initialized, balance, assembly, pending, transfer>>

NextClones == ReserveClone \/ ResolveClone \/ DestroyClone

SpecClones == InitClones /\ [][NextClones]_vars

----------------------------------------------------------------------------
(* The dispatch loop under fair scheduling: a message waits on some kinds,   *)
(* the signal of another kind is asserted while psa_get fails for it, and no *)
(* further message arrives.  The messages are those whose handling involves  *)
(* no transfer, so that no protocol violation can stop the process: connects *)
(* and disconnects of the kinds without such handlers, init and free calls.  *)

LiveKinds ==
    {"PSA_CRYPTO_INIT", "PSA_CRYPTO_FREE", "PSA_ASYMMETRIC", "PSA_AEAD", "PSA_RNG",
     "PSA_ENTROPY_INJECT", "PSA_KEY_MNG"}

LiveMessages(k) ==
    {Msg(k, t, 0, 1) : t \in {PSA_IPC_CONNECT, PSA_IPC_DISCONNECT}}
    \cup (IF k \in {"PSA_CRYPTO_INIT", "PSA_CRYPTO_FREE"}
          THEN {Call(k, 0, 1, "", 0, 0)}
          ELSE {})

InitLive ==
    /\ scope = Profile(LiveKinds, 0, {0})
    /\ pc = "loop"
    /\ todo = {}
    /\ msg = NoMsg
    /\ trace = << >>
    /\ counter = 0
    /\ clones = NoClones
    /\ acl = [h \in Handles |-> 0]
    /\ conns = [c \in Chan |-> Closed]
    /\ heap = {}
    /\ registrant = [h \in Handles |-> 0]
    /\ initialized = FALSE
    /\ balance = [c \in Clients |-> 0]
    /\ assembly = NoAssembly
    /\ pre = [counter |-> 0, clones |-> NoClones, acl |-> [h \in Handles |-> 0],
              conns |-> [c \in Chan |-> Closed], heap |-> {}]
    /\ \E waiting \in SUBSET LiveKinds, failing \in SUBSET LiveKinds :
          /\ waiting # {}
          /\ Cardinality(failing) <= 1
          /\ waiting \cap failing = {}
          /\ pending = [msgs |-> waiting, failing |-> failing]
    /\ transfer = NoTransfer

\* psa_wait returns every asserted signal
LiveWait ==
    /\ pc = "loop"
    /\ todo = {}
    /\ pending.msgs \cup pending.failing # {}
    /\ todo' = pending.msgs \cup pending.failing
    /\ UNCHANGED <<scope, pc, msg, trace, pre, counter, clones, acl, conns, heap, registrant, initialized, balance, assembly, pending, transfer>>

\* psa_get fails for the signal under test: continue
LiveGetFails ==
    /\ pc = "loop"
    /\ todo # {}
    /\ NextSignal \in pending.failing
    /\ PsaGetFails

\* psa_get retrieves the message waiting on the signal under test
LiveGet ==
    /\ pc = "loop"
    /\ todo # {}
    /\ NextSignal \in pending.msgs
    /\ \E m \in LiveMessages(NextSignal) : msg' = m
    /\ pc' = "handle"
    /\ trace' = << >>
    /\ pre' = World
    /\ pending' = [pending EXCEPT !.msgs = @ \ {NextSignal}]
    /\ UNCHANGED <<scope, todo, counter, clones, acl, conns, heap, registrant, initialized, balance, assembly, transfer>>

NextLive ==
    \/ LiveWait
    \/ LiveGetFails
    \/ LiveGet
    \/ HandleInit
    \/ HandleAsymmetric
    \/ HandleAead
    \/ HandleKeyMng
    \/ HandleRng
    \/ HandleFree
    \/ HandleEntropy

\* the partition's thread is scheduled whenever it can take a step
SpecLive == InitLive /\ [][NextLive]_vars /\ WF_vars(NextLive)

----------------------------------------------------------------------------
(* The chunked transfer of PSA_HASH_UPDATE / PSA_MAC_UPDATE on its own, one  *)
(* statement at a time, for a payload length and a chunk size drawn at the   *)
(* start; MAX_DATA_CHUNK_SIZE_IN_BYTES may be set by the build               *)

ChunkSizes == {1, 2, 3, MAX_DATA_CHUNK_SIZE_IN_BYTES}

TransferLens == (0..MaxTransferLen) \cup UpdateLens

\* size_t data_remaining = msg->in_size[1]
InitTransfer ==
    /\ scope = Profile({"PSA_HASH", "PSA_MAC"}, 1, UpdateLens)
    /\ pc = "loop"
    /\ todo = {}
    /\ msg = NoMsg
    /\ trace = << >>
    /\ counter = 0
    /\ clones = NoClones
    /\ acl = [h \in Handles |-> 0]
    /\ conns = [c \in Chan |-> Closed]
    /\ heap = {}
    /\ registrant = [h \in Handles |-> 0]
    /\ initialized = FALSE
    /\ balance = [c \in Clients |-> 0]
    /\ assembly = NoAssembly
    /\ pending = NoPending
    /\ pre = [counter |-> 0, clones |-> NoClones, acl |-> [h \in Handles |-> 0],
              conns |-> [c \in Chan |-> Closed], heap |-> {}]
    /\ \E L \in TransferLens, C \in ChunkSizes :
          transfer = [NoTransfer EXCEPT !.len = L, !.chunk = C, !.data_remaining = L,
                                        !.at = "calloc"]

TransferStep(next) ==
    /\ transfer' = next
    /\ UNCHANGED <<scope, pc, todo, msg, trace, pre, counter, clones, acl, conns, heap,
                   registrant, initialized, balance, assembly, pending>>

\* input_buffer = mbedtls_calloc(1, MIN(data_remaining, chunk)) returns a buffer
AllocateBuffer ==
    /\ transfer.at = "calloc"
    /\ TransferStep([transfer EXCEPT !.at = "while"])

\* ... or NULL: status = PSA_ERROR_INSUFFICIENT_MEMORY; break
AllocateBufferFails ==
    /\ transfer.at = "calloc"
    /\ TransferStep([transfer EXCEPT !.status = PSA_ERROR_INSUFFICIENT_MEMORY,
                                     !.at = "reply"])

\* while (data_remaining > 0)
TestRemaining ==
    /\ transfer.at = "while"
    /\ TransferStep([transfer EXCEPT
                        !.at = IF transfer.data_remaining > 0 THEN "psa_read" ELSE "free"])

\* size_to_read = MIN(data_remaining, chunk); bytes_read = psa_read(...) in full
ReadChunk ==
    /\ transfer.at = "psa_read"
    /\ TransferStep([transfer EXCEPT
                        !.bytes_read = MIN(transfer.data_remaining, transfer.chunk),
                        !.at = "update"])

\* bytes_read != size_to_read: SPM_PANIC
ReadChunkShort ==
    /\ transfer.at = "psa_read"
    /\ TransferStep([transfer EXCEPT !.at = "panic"])

\* the update that succeeds without taking the chunk off data_remaining
SinkAccepts_NoProgress ==
    /\ transfer.at = "update"
    /\ TransferStep([transfer EXCEPT !.status = PSA_SUCCESS, !.at = "while"])

\* status = update(...) succeeds; data_remaining = data_remaining - bytes_read
SinkAccepts ==
    /\ transfer.at = "update"
    /\ TransferStep([transfer EXCEPT !.status = PSA_SUCCESS,
                                     !.data_remaining = @ - transfer.bytes_read,
                                     !.chunks = @ + 1,
                                     !.at = "while"])

\* status = update(...) fails: break
SinkRejects ==
    /\ transfer.at = "update"
    /\ \E s \in EngineStatus \ {PSA_SUCCESS} :
          TransferStep([transfer EXCEPT !.status = s, !.at = "free"])

\* mbedtls_free(input_buffer); break
FreeBuffer ==
    /\ transfer.at = "free"
    /\ TransferStep([transfer EXCEPT !.at = "reply"])

NextTransfer ==
    \/ AllocateBuffer
    \/ AllocateBufferFails
    \/ TestRemaining
    \/ ReadChunk
    \/ ReadChunkShort
    \/ SinkAccepts
    \/ SinkRejects
    \/ FreeBuffer

\* the handler keeps running: psa_read and the engine's update return
SpecTransfer == InitTransfer /\ [][NextTransfer]_vars /\ WF_vars(NextTransfer)

----------------------------------------------------------------------------
(* Vocabulary of the properties.  msg is the message last retrieved, pre the
   state psa_get found, trace the external calls of its handler. *)

\* the handler of msg has replied
Replied == pc = "loop" /\ msg.kind # "none"

\* the handler of msg has aborted the process
Aborted == pc = "panic"

\* the handler of msg has run
Done == Replied \/ Aborted

IsCall(k, f) == msg.kind = k /\ msg.type = PSA_IPC_CALL /\ msg.func = f

HasEvent(e) == \E i \in 1..Len(trace) : trace[i] = e

HasOp(op) == \E i \in 1..Len(trace) : trace[i].op = op

\* position of the first call of op in trace, 0 when there is none
Pos(op) ==
    IF HasOp(op) THEN Lowest({i \in 1..Len(trace) : trace[i].op = op}) ELSE 0

\* msg is a call of an operation that names a key handle, well-formed enough
\* for its header to be decoded
HandleTaking ==
    /\ msg.type = PSA_IPC_CALL
    /\ msg.in0 = "fits"
    /\ \/ msg.kind = "PSA_MAC" /\ msg.func \in {"PSA_MAC_SIGN_SETUP", "PSA_MAC_VERIFY_SETUP"}
       \/ msg.kind = "PSA_SYMMETRIC"
            /\ msg.func \in {"PSA_CIPHER_ENCRYPT_SETUP", "PSA_CIPHER_DECRYPT_SETUP"}
       \/ msg.kind = "PSA_ASYMMETRIC"
            /\ msg.func \in {"PSA_ASYMMETRIC_SIGN", "PSA_ASYMMETRIC_VERIFY",
                             "PSA_ASYMMETRIC_ENCRYPT", "PSA_ASYMMETRIC_DECRYPT"}
       \/ msg.kind = "PSA_AEAD" /\ msg.func \in {"PSA_AEAD_ENCRYPT", "PSA_AEAD_DECRYPT"}
       \/ msg.kind = "PSA_KEY_MNG" /\ msg.func \in KeyMngHandleFuncs \cup {"PSA_GENERATE_KEY"}
       \/ msg.kind = "PSA_GENERATOR"
            /\ msg.func \in {"PSA_GENERATOR_IMPORT_KEY", "PSA_KEY_DERIVATION",
                             "PSA_KEY_AGREEMENT"}

PrePermitted ==
    psa_crypto_access_control_is_handle_permitted(pre.acl, msg.handle, msg.client)

----------------------------------------------------------------------------
(* C1 *)

\* C1: a call of a handle-taking operation (sign, export, destroy, ...) whose
\* (handle, caller) pair the registry does not permit invokes no Crypto Engine
\* operation, and the reply it gets is invalid-handle; the only other way out is
\* the abort on a short header read, before the handle is known.
C1_UnpermittedHandleRejected ==
    (Done /\ HandleTaking /\ ~PrePermitted)
        => /\ EngineOps(trace) = << >>
           /\ Replied => Replies(trace) = << Reply(PSA_ERROR_INVALID_HANDLE) >>
           /\ Aborted => trace = << ReadShort(0, 0) >>
           /\ acl = pre.acl

\* an export of a key handle registered to the other client is turned down
C1_Witness ==
    /\ Replied
    /\ IsCall("PSA_KEY_MNG", "PSA_EXPORT_KEY")
    /\ pre.acl[msg.handle] \notin {0, msg.client}
    /\ Replies(trace) = << Reply(PSA_ERROR_INVALID_HANDLE) >>

----------------------------------------------------------------------------
(* C2 *)

\* C2: every message psa_get retrieves gets exactly one psa_reply, the last
\* thing its handler does, before the next message is retrieved (psa_get needs
\* pc = "loop"); while the handler has not run nothing is replied, and a handler
\* that aborts the process replies nothing.
C2_ExactlyOneReply ==
    /\ pc = "handle" => trace = << >>
    /\ Replied => /\ Len(Replies(trace)) = 1
                  /\ trace[Len(trace)].op = "psa_reply"
    /\ Aborted => Replies(trace) = << >>

\* a key management call that reached the engine and was replied to once
C2_Witness ==
    /\ Replied
    /\ IsCall("PSA_KEY_MNG", "PSA_IMPORT_KEY")
    /\ HasOp("psa_import_key")
    /\ Len(Replies(trace)) = 1

----------------------------------------------------------------------------
(* C3 *)

\* C3: is_permitted(handle, caller) is true exactly for the caller of the
\* latest registration of the handle that no unregistration (or wipe of the
\* registry) followed: true right after register(handle, caller), false for
\* every caller right after unregister(handle), false for everybody else always.
C3_RegistrySemantics ==
    /\ \A h \in Handles : \A c \in Clients :
          psa_crypto_access_control_is_handle_permitted(acl, h, c) <=> registrant[h] = c
    /\ \A h \in Handles :
          (Replied /\ HasOp("register_handle") /\ trace[Pos("register_handle")].a = h)
              => /\ psa_crypto_access_control_is_handle_permitted(acl, h, msg.client)
                 /\ \A c \in Clients \ {msg.client} :
                       ~psa_crypto_access_control_is_handle_permitted(acl, h, c)
    /\ \A h \in Handles :
          (Replied /\ HasOp("unregister_handle") /\ trace[Pos("unregister_handle")].a = h)
              => \A c \in Clients :
                    ~psa_crypto_access_control_is_handle_permitted(acl, h, c)

\* a handle registered to one client, destroyed, and registered anew to the other
C3_Witness ==
    /\ Replied
    /\ HasOp("register_handle")
    /\ pre.acl[trace[Pos("register_handle")].a] = 0
    /\ \E h \in Handles : acl[h] = 1
    /\ \E h \in Handles : acl[h] = -1
    /\ msg.client = -1

----------------------------------------------------------------------------
(* C4 *)

CloneEnd == msg.kind = "PSA_HASH" /\ msg.type = PSA_IPC_CALL /\ msg.func = "PSA_HASH_CLONE_END"

\* the index a CLONE_END carries names a live slot of the caller
CloneResolvable ==
    /\ msg.index \in CloneIdx
    /\ pre.clones[msg.index].ref_count > 0
    /\ pre.clones[msg.index].source_operation # NULL
    /\ pre.clones[msg.index].partition_id = msg.client

----------------------------------------------------------------------------
(* C5 *)

NewHandleOps == {"psa_allocate_key", "psa_create_key", "psa_open_key"}

RemoveHandleOps == {"psa_destroy_key", "psa_close_key"}

KeyMngCall(funcs) ==
    msg.kind = "PSA_KEY_MNG" /\ msg.type = PSA_IPC_CALL /\ msg.in0 = "fits" /\ msg.func \in funcs

\* the engine operation among ops that the handler called returned success
EngineSucceeded(ops) ==
    \E i \in 1..Len(trace) : trace[i].op \in ops /\ trace[i].st = PSA_SUCCESS

\* C5: allocate, create and open register the new handle to the caller when the
\* engine succeeds, after the engine call and before the handle is written back
\* and the reply is sent, and register nothing when the engine fails or is not
\* reached; destroy and close unregister the handle only after the engine
\* succeeded, and leave the registry alone otherwise.
C5_RegisterBeforeReply ==
    /\ (Done /\ KeyMngCall({"PSA_ALLOCATE_KEY", "PSA_CREATE_KEY", "PSA_OPEN_KEY"}))
          => IF EngineSucceeded(NewHandleOps)
             THEN LET e == Pos("register_handle")
                  IN  /\ Replied
                      /\ e > 0
                      /\ trace[e - 1].op \in NewHandleOps
                      /\ trace[e - 1].st = PSA_SUCCESS
                      /\ trace[e].a = trace[e - 1].a
                      /\ trace[e].b = msg.client
                      /\ trace[e + 1] = Write(0, trace[e].a, SIZEOF_PSA_KEY_HANDLE)
                      /\ trace[e + 2] = Reply(PSA_SUCCESS)
                      /\ Len(SelectOps(trace, {"register_handle"})) = 1
                      /\ acl = [pre.acl EXCEPT ![trace[e].a] = msg.client]
             ELSE /\ ~HasOp("register_handle")
                  /\ ~HasOp("psa_write")
                  /\ acl = pre.acl
    /\ (Done /\ KeyMngCall({"PSA_DESTROY_KEY", "PSA_CLOSE_KEY"}))
          => IF EngineSucceeded(RemoveHandleOps)
             THEN LET u == Pos("unregister_handle")
                  IN  /\ Replied
                      /\ u > 0
                      /\ trace[u - 1].op \in RemoveHandleOps
                      /\ trace[u - 1].st = PSA_SUCCESS
                      /\ trace[u].a = msg.handle
                      /\ trace[u + 1] = Reply(PSA_SUCCESS)
                      /\ acl = [pre.acl EXCEPT ![msg.handle] = 0]
             ELSE /\ ~HasOp("unregister_handle")
                  /\ acl = pre.acl

\* a key created for the caller: registered, written back, replied
C5_Witness ==
    /\ Replied
    /\ KeyMngCall({"PSA_CREATE_KEY"})
    /\ EngineSucceeded({"psa_create_key"})
    /\ HasOp("register_handle")
    /\ acl # pre.acl

----------------------------------------------------------------------------
(* C6 *)

ContextEvents(st) == SelectSeq(trace, LAMBDA e : e.op \in {"calloc", "free"} /\ e.st = st)

\* C6: the operation context of a hash, MAC or cipher connection is allocated
\* at connect and released exactly once, at disconnect: at any time the
\* allocated contexts are exactly the contexts of the open connections, one
\* each; a call (whether it succeeds, fails or is not recognised) and a connect
\* release nothing; a disconnect releases the connection's context, once.
C6_ContextReleasedOnce ==
    /\ heap = {conns[ch].rhandle : ch \in {c \in Chan : conns[c].kind # "none"}}
    /\ \A c1, c2 \in Chan :
          (conns[c1].kind # "none" /\ conns[c2].kind # "none" /\ c1 # c2)
              => conns[c1].rhandle # conns[c2].rhandle
    /\ \A ch \in Chan : conns[ch].kind = "none" => conns[ch].rhandle = NULL
    /\ (Done /\ msg.kind \in {"PSA_HASH", "PSA_MAC", "PSA_SYMMETRIC"})
          => CASE msg.type = PSA_IPC_DISCONNECT ->
                    /\ ContextEvents("context") = << FreeCtx(pre.conns[msg.chan].rhandle) >>
                    /\ pre.conns[msg.chan].rhandle \in pre.heap
                    /\ heap = pre.heap \ {pre.conns[msg.chan].rhandle}
               [] msg.type = PSA_IPC_CONNECT ->
                    /\ \/ ContextEvents("context") = << >>
                       \/ /\ ContextEvents("context") = << AllocCtx(conns[msg.chan].rhandle) >>
                          /\ conns[msg.chan].rhandle \notin pre.heap
                    /\ pre.heap \subseteq heap
               [] OTHER ->
                    /\ ContextEvents("context") = << >>
                    /\ heap = pre.heap

\* a MAC connection that has carried calls is closed and its context released
C6_Witness ==
    /\ Replied
    /\ msg.kind = "PSA_MAC"
    /\ msg.type = PSA_IPC_DISCONNECT
    /\ HasEvent(FreeCtx(pre.conns[msg.chan].rhandle))
    /\ pre.heap # {}
    /\ heap = {}

----------------------------------------------------------------------------
(* C7 and C8 *)

UpdateOps == {"psa_hash_update", "psa_mac_update"}

UpdateCall ==
    /\ msg.type = PSA_IPC_CALL
    /\ \/ msg.kind = "PSA_HASH" /\ msg.func = "PSA_HASH_UPDATE"
       \/ msg.kind = "PSA_MAC" /\ msg.func = "PSA_MAC_UPDATE"

\* the sizes the sink was fed with, in order
SinkSizes == [i \in 1..Len(SelectOps(trace, UpdateOps)) |-> SelectOps(trace, UpdateOps)[i].a]

SinkFailed == \E i \in 1..Len(trace) : trace[i].op \in UpdateOps /\ trace[i].st # PSA_SUCCESS

CeilDiv(n, d) == (n + d - 1) \div d

\* ceil(L / C) chunks, the i-th of min(what remains, C) bytes
ExpectedChunks(L) ==
    [i \in 1..CeilDiv(L, MAX_DATA_CHUNK_SIZE_IN_BYTES) |->
        MIN(L - (i - 1) * MAX_DATA_CHUNK_SIZE_IN_BYTES, MAX_DATA_CHUNK_SIZE_IN_BYTES)]

\* C7 as stated: an update of L bytes that is replied to and whose sink never
\* failed has fed the sink ceil(L / C) times, each time min(remaining, C) bytes.
C7_AsStated ==
    (Replied /\ UpdateCall /\ ~SinkFailed) => SinkSizes = ExpectedChunks(msg.len)

\* C7: an update of L bytes that got its scratch buffer, was replied to (the
\* transport delivered every chunk in full), and whose sink never failed has fed
\* the sink ceil(L / C) times, each time min(remaining, C) bytes.
C7_ChunkedStreaming ==
    (Replied /\ UpdateCall /\ ~SinkFailed /\ HasEvent(AllocBuf(1)))
        => SinkSizes = ExpectedChunks(msg.len)

\* 1000 bytes go to the sink as 400, 400 and 200
C7_Witness ==
    /\ Replied
    /\ UpdateCall
    /\ msg.len = 2 * MAX_DATA_CHUNK_SIZE_IN_BYTES + 200
    /\ ~SinkFailed
    /\ SinkSizes = << MAX_DATA_CHUNK_SIZE_IN_BYTES, MAX_DATA_CHUNK_SIZE_IN_BYTES, 200 >>

\* C8: an update of zero bytes that got its scratch buffer and was replied to
\* has not invoked the sink and is answered with success.
C8_EmptyUpdateSucceeds ==
    (Replied /\ UpdateCall /\ msg.len = 0 /\ HasEvent(AllocBuf(1)))
        => /\ SinkSizes = << >>
           /\ Replies(trace) = << Reply(PSA_SUCCESS) >>

----------------------------------------------------------------------------
(* C9 and C10 *)

CloneBegin ==
    msg.kind = "PSA_HASH" /\ msg.type = PSA_IPC_CALL /\ msg.func = "PSA_HASH_CLONE_BEGIN"

\* the slots of cl that hold the pair of the calling connection
PairSlots(cl) ==
    {i \in CloneIdx : /\ cl[i].partition_id = msg.client
                      /\ cl[i].source_operation = pre.conns[msg.chan].rhandle
                      /\ cl[i].ref_count > 0}

LiveSlots(cl) == {i \in CloneIdx : cl[i].ref_count > 0}

\* C9: a pair never lives in two slots; reserving a pair that is in the pool
\* returns the index of its slot, the one its first reservation returned, and
\* adds one to the slot's count (2 after the second reservation) changing
\* nothing else; reserving a pair that is not, with a slot free, returns the slot
\* it takes, with count 1; one resolve of a slot that counts 2 leaves it live,
\* with count 1 and the same pair.
C9_ReserveIdempotent ==
    /\ (Replied /\ CloneBegin) => Cardinality(PairSlots(clones)) <= 1
    /\ (Replied /\ CloneBegin /\ PairSlots(pre.clones) # {})
          => \E i \in PairSlots(pre.clones) :
                /\ trace = << ReadOk(0, 0), Write(0, i, SIZEOF_SIZE_T), Reply(PSA_SUCCESS) >>
                /\ clones = [pre.clones EXCEPT ![i].ref_count = pre.clones[i].ref_count + 1]
    /\ (Replied /\ CloneBegin /\ PairSlots(pre.clones) = {}
          /\ LiveSlots(pre.clones) # CloneIdx)
          => \E i \in CloneIdx \ LiveSlots(pre.clones) :
                /\ trace = << ReadOk(0, 0), Write(0, i, SIZEOF_SIZE_T), Reply(PSA_SUCCESS) >>
                /\ clones = [pre.clones EXCEPT ![i] =
                                [partition_id |-> msg.client,
                                 source_operation |-> pre.conns[msg.chan].rhandle,
                                 ref_count |-> 1]]
    /\ (Replied /\ CloneEnd /\ CloneResolvable /\ pre.clones[msg.index].ref_count = 2)
          => /\ clones[msg.index] = [pre.clones[msg.index] EXCEPT !.ref_count = 1]
             /\ get_hash_clone(clones, msg.index, msg.client) = PSA_SUCCESS

\* the second reservation of a pair: same slot, count 2
C9_Witness ==
    /\ Replied
    /\ CloneBegin
    /\ \E i \in PairSlots(pre.clones) :
          /\ pre.clones[i].ref_count = 1
          /\ clones[i].ref_count = 2
          /\ HasEvent(Write(0, i, SIZEOF_SIZE_T))

\* the pairs live in the pool
LivePairs(cl) == {<<cl[i].partition_id, cl[i].source_operation>> : i \in LiveSlots(cl)}

\* C10: when every slot holds some other pair, a reservation is answered
\* bad-state, writes no index and leaves every slot as it was; never do more
\* than MAX_CONCURRENT_HASH_CLONES distinct pairs live in the pool.
C10_PoolExhaustion ==
    /\ Cardinality(LivePairs(clones)) <= MAX_CONCURRENT_HASH_CLONES
    /\ (Replied /\ CloneBegin /\ LiveSlots(pre.clones) = CloneIdx /\ PairSlots(pre.clones) = {})
          => /\ trace = << ReadOk(0, 0), Reply(PSA_ERROR_BAD_STATE) >>
             /\ clones = pre.clones

\* a third connection asks for a clone while both slots hold other pairs
C10_Witness ==
    /\ Replied
    /\ CloneBegin
    /\ Cardinality(LivePairs(pre.clones)) = MAX_CONCURRENT_HASH_CLONES
    /\ PairSlots(pre.clones) = {}
    /\ Replies(trace) = << Reply(PSA_ERROR_BAD_STATE) >>

----------------------------------------------------------------------------
(* C11 and C12 *)

HashCall(funcs) ==
    msg.kind = "PSA_HASH" /\ msg.type = PSA_IPC_CALL /\ msg.func \in funcs

HashDisconnect == msg.kind = "PSA_HASH" /\ msg.type = PSA_IPC_DISCONNECT

\* the slots of cl whose source operation is the context of msg's connection
SlotsOfContext(cl) ==
    {i \in CloneIdx : /\ pre.conns[msg.chan].rhandle # NULL
                      /\ cl[i].source_operation = pre.conns[msg.chan].rhandle}

\* every occupied slot refers to the context of an open hash connection
SlotsReferToOpenContexts ==
    \A i \in CloneIdx :
        clones[i].source_operation # NULL
            => \E ch \in Chan : /\ conns[ch].kind = "PSA_HASH"
                                /\ conns[ch].rhandle = clones[i].source_operation

\* C11 as stated: after any hash finish, verify, abort or disconnect that was
\* replied to, no slot refers to the connection's context; and every occupied
\* slot always refers to the context of an open hash connection.
C11_AsStated ==
    /\ SlotsReferToOpenContexts
    /\ (Replied /\ (HashCall({"PSA_HASH_FINISH", "PSA_HASH_VERIFY", "PSA_HASH_ABORT"})
                      \/ HashDisconnect))
          => SlotsOfContext(clones) = {}

\* C11: a clone slot never outlives the context it refers to: every occupied
\* slot always refers to the context of an open hash connection, and after a
\* disconnect, an abort, or a finish or verify that got as far as the engine
\* (its buffer was allocated), no slot refers to the connection's context.
C11_SlotNeverOutlivesContext ==
    /\ SlotsReferToOpenContexts
    /\ (Replied /\ (HashCall({"PSA_HASH_FINISH", "PSA_HASH_VERIFY", "PSA_HASH_ABORT"})
                      \/ HashDisconnect)
          /\ ~HasEvent(AllocBufFail(1)))
          => SlotsOfContext(clones) = {}

\* a finish on a connection whose context was reserved twice clears the slot
C11_Witness ==
    /\ Replied
    /\ HashCall({"PSA_HASH_FINISH"})
    /\ HasOp("psa_hash_finish")
    /\ \E i \in SlotsOfContext(pre.clones) : pre.clones[i].ref_count = 2
    /\ SlotsOfContext(clones) = {}

\* C12: no two occupied slots of the pool hold the same (owning caller, source
\* operation) pair.
C12_PairsUnique ==
    \A i, j \in CloneIdx :
        (i # j /\ clones[i].source_operation # NULL /\ clones[j].source_operation # NULL)
            => <<clones[i].partition_id, clones[i].source_operation>>
                   # <<clones[j].partition_id, clones[j].source_operation>>

\* the pair of slot 1 is reserved again while slot 0 is free: no second slot
C12_Witness ==
    /\ Replied
    /\ CloneBegin
    /\ pre.clones[0].source_operation = NULL
    /\ pre.clones[1].source_operation = pre.conns[msg.chan].rhandle
    /\ clones[0].source_operation = NULL
    /\ clones[1].ref_count = 2

----------------------------------------------------------------------------
(* C13 to C16: the lifecycle reference count *)

InitCall == msg.kind = "PSA_CRYPTO_INIT" /\ msg.type = PSA_IPC_CALL

FreeCall == msg.kind = "PSA_CRYPTO_FREE" /\ msg.type = PSA_IPC_CALL

\* the handler tore the engine down, or wiped the slot pool or the registry
TornDown == HasOp("mbedtls_psa_crypto_free")

Wiped ==
    \/ HasOp("memset")
    \/ HasOp("psa_crypto_access_control_init")
    \/ HasOp("psa_crypto_access_control_destroy")

\* C13: from the uninitialised state (count 0) a successful init leads to count
\* 1 and a second one to count 2, the engine being initialised; a free request
\* at count 2 leaves the engine initialised, tears nothing down and wipes
\* nothing; the free request after it, at count 1, tears the engine down.
C13_TwoInitsOneFree ==
    /\ counter > 0 => initialized
    /\ (Replied /\ InitCall /\ Replies(trace) = << Reply(PSA_SUCCESS) >>)
          => counter = pre.counter + 1 /\ initialized
    /\ (Replied /\ FreeCall /\ pre.counter = 2)
          => /\ counter = 1
             /\ initialized
             /\ ~TornDown
             /\ ~Wiped
             /\ clones = pre.clones
             /\ acl = pre.acl
    /\ (Replied /\ FreeCall /\ pre.counter = 1)
          => /\ counter = 0
             /\ TornDown
             /\ ~initialized

\* the first of two frees after two inits: nothing torn down
C13_Witness ==
    /\ Replied
    /\ FreeCall
    /\ pre.counter = 2
    /\ counter = 1
    /\ initialized
    /\ ~TornDown

\* C14: the engine's initialisation is invoked only by an init request that
\* finds the count at 0; an init request at count 1 or more does not invoke it.
C14_InitOnlyOnFirst ==
    (Done /\ InitCall /\ HasOp("psa_crypto_init")) => pre.counter = 0

\* C15: the teardown (of the engine, with the wipe of the pool and of the
\* registry) is performed only by a free request that moves the count from 1
\* to 0; a free request at count 0 performs none.
C15_TeardownOnlyOnLast ==
    (Done /\ FreeCall /\ (TornDown \/ Wiped)) => (pre.counter = 1 /\ counter = 0)

\* the clients' accounts before msg was handled
PreBalance ==
    IF Replied /\ InitCall /\ Replies(trace) = << Reply(PSA_SUCCESS) >>
    THEN [balance EXCEPT ![msg.client] = @ - 1]
    ELSE IF Replied /\ FreeCall
    THEN [balance EXCEPT ![msg.client] = @ + 1]
    ELSE balance

\* C16: while some caller has made more successful init requests than free
\* requests (before the request at hand and after it), the engine is not torn
\* down and neither the registry nor the pool is wiped.
C16_NoTeardownWhileInUse ==
    (Done /\ \E c \in Clients : PreBalance[c] > 0 /\ balance[c] > 0)
        => ~TornDown /\ ~Wiped

----------------------------------------------------------------------------
(* C17 *)

\* the i-th call of the handler is a psa_read that delivered another number of
\* bytes than the handler requested
ShortReadAt(i) == trace[i].op = "psa_read" /\ trace[i].st # "ok"

\* C17: whenever psa_read delivers another number of bytes than the handler
\* requested, the process aborts there: the short read is the last call the
\* handler makes, no engine operation follows it and no reply is sent.
C17_ShortReadAborts ==
    \A i \in 1..Len(trace) :
        (Done /\ ShortReadAt(i))
            => /\ Aborted
               /\ i = Len(trace)
               /\ Replies(trace) = << >>

----------------------------------------------------------------------------
(* C18 *)

\* C18: a message whose type is none of connect, call and disconnect aborts
\* the process, on every service kind: no handler has run (no external call was
\* made, nothing was replied, the state is as psa_get found it), and once the
\* process is aborted no further message is retrieved or handled.
C18_UnexpectedTypeAborts ==
    /\ (Done /\ msg.type = OTHER_TYPE)
          => /\ Aborted
             /\ trace = << >>
             /\ World = pre
    /\ Aborted => ~ENABLED Next

\* a message of an unexpected type on the hash service stops the partition
C18_Witness ==
    /\ Aborted
    /\ msg.kind = "PSA_HASH"
    /\ msg.type = OTHER_TYPE
    /\ trace = << >>

----------------------------------------------------------------------------
(* C19 *)

\* msg is a call that was answered with another status than success
FailedCall ==
    /\ Replied
    /\ msg.type = PSA_IPC_CALL
    /\ Replies(trace) # << Reply(PSA_SUCCESS) >>

\* C19: every call answered with a non-success status leaves the registry, the
\* slot pool and the reference count as they were before the call.
C19_FailedCallChangesNothing ==
    FailedCall => /\ acl = pre.acl
                  /\ clones = pre.clones
                  /\ counter = pre.counter

----------------------------------------------------------------------------
(* C20 *)

\* the service kinds whose call handler decodes an operation code
DecodingKinds ==
    {"PSA_MAC", "PSA_HASH", "PSA_SYMMETRIC", "PSA_ASYMMETRIC", "PSA_AEAD",
     "PSA_KEY_MNG", "PSA_GENERATOR"}

\* msg is a call with a header of the expected size, delivered in full, whose
\* operation code the kind does not recognise
UnknownOpcodeCall ==
    /\ Done
    /\ msg.kind \in DecodingKinds
    /\ msg.type = PSA_IPC_CALL
    /\ msg.in0 = "fits"
    /\ msg.func = UNKNOWN_FUNC
    /\ \A i \in 1..Len(trace) : ~ShortReadAt(i)

\* C20: on every kind that decodes an operation code, a call with an
\* unrecognised code is answered with not-supported whatever handle its header
\* carries, changes neither the operation context nor any shared state, and
\* invokes no engine operation.
C20_UnknownOpcodeNotSupported ==
    UnknownOpcodeCall
        => /\ Replies(trace) = << Reply(PSA_ERROR_NOT_SUPPORTED) >>
           /\ EngineOps(trace) = << >>
           /\ World = pre

----------------------------------------------------------------------------
(* C21 *)

\* msg->out_size[slot] of msg
OutSize(slot) == IF slot = 0 THEN msg.out0 ELSE msg.out1

\* C21: for every call and every output parameter, the handler writes no more
\* bytes to the parameter than the message declares room for, hash finish and
\* MAC sign-finish and the lengths written to parameter 1 included.
C21_WritesWithinCapacity ==
    (Done /\ msg.type = PSA_IPC_CALL)
        => \A i \in 1..Len(trace) :
              trace[i].op = "psa_write" => trace[i].n <= OutSize(trace[i].a)

----------------------------------------------------------------------------
(* C22 *)

\* msg is a call of a kind that decodes a fixed header from parameter 0, and
\* parameter 0 has another length than the header
OddHeaderCall ==
    /\ Done
    /\ msg.kind \in DecodingKinds
    /\ msg.type = PSA_IPC_CALL
    /\ msg.in0 # "fits"

\* C22: a call whose parameter 0 has not exactly the length of the kind's
\* header is answered with communication-failure, without a read of the
\* parameter, without an engine operation and without a change of shared state,
\* on every kind that decodes a header.
C22_OddHeaderRejected ==
    OddHeaderCall
        => /\ Replies(trace) = << Reply(PSA_ERROR_COMMUNICATION_FAILURE) >>
           /\ ~HasOp("psa_read")
           /\ EngineOps(trace) = << >>
           /\ World = pre

----------------------------------------------------------------------------
(* C23 *)

\* msg is a connect to a kind that keeps an operation context
ContextConnect == Done /\ msg.type = PSA_IPC_CONNECT /\ msg.kind \in ContextKinds

\* C23: a connect to the hash, MAC, cipher or key-derivation kind allocates one
\* context with calloc; when that succeeds the fresh context is attached to the
\* connection and the reply is success, and when it fails the reply is
\* insufficient-memory and nothing is attached to the connection.
C23_ConnectAttachesContext ==
    ContextConnect
        => LET allocs == SelectOps(trace, {"calloc"})
               attached == SelectOps(trace, {"psa_set_rhandle"})
           IN  /\ Replied
               /\ Len(allocs) = 1
               /\ IF allocs[1].a # NULL
                  THEN /\ Replies(trace) = << Reply(PSA_SUCCESS) >>
                       /\ allocs[1].a \notin pre.heap
                       /\ heap = pre.heap \cup {allocs[1].a}
                       /\ attached = << Ev("psa_set_rhandle", msg.chan, allocs[1].a, "") >>
                       /\ conns[msg.chan] =
                             [kind |-> msg.kind, client |-> msg.client, rhandle |-> allocs[1].a]
                  ELSE /\ Replies(trace) = << Reply(PSA_ERROR_INSUFFICIENT_MEMORY) >>
                       /\ attached = << >>
                       /\ heap = pre.heap
                       /\ conns[msg.chan] = Closed

C23_Witness ==
    /\ ContextConnect
    /\ msg.kind = "PSA_GENERATOR"
    /\ HasEvent(AllocCtx(NULL))
    /\ Replies(trace) = << Reply(PSA_ERROR_INSUFFICIENT_MEMORY) >>

----------------------------------------------------------------------------
(* C24 *)

\* the positions in trace of the successful allocations / of the frees of
\* scratch buffer id (a free of NULL releases nothing)
ScratchAllocs(id) ==
    {i \in 1..Len(trace) : trace[i] = AllocBuf(id)}

ScratchFrees(id) ==
    {i \in 1..Len(trace) : trace[i] = FreeBuf(id)}

ScratchIds == {1, 2}

\* C24: on every path of a handler that ends in a reply, every scratch buffer
\* the call allocated has been freed exactly once, after its allocation and
\* before the reply: no scratch buffer is live between messages.
C24_ScratchFreedOnce ==
    Replied
        => \A id \in ScratchIds :
              /\ Cardinality(ScratchAllocs(id)) <= 1
              /\ Cardinality(ScratchFrees(id)) = Cardinality(ScratchAllocs(id))
              /\ \A a \in ScratchAllocs(id), f \in ScratchFrees(id) :
                    a < f /\ f < Pos("psa_reply")

C24_Witness ==
    /\ Replied
    /\ IsCall("PSA_ASYMMETRIC", "PSA_ASYMMETRIC_SIGN")
    /\ ScratchAllocs(1) # {}
    /\ HasEvent(AllocBufFail(2))
    /\ ScratchFrees(1) # {}
    /\ Replies(trace) = << Reply(PSA_ERROR_INSUFFICIENT_MEMORY) >>

----------------------------------------------------------------------------
(* C25 *)

\* C25: when psa_get fails for an asserted signal, the loop skips that signal
\* for this iteration, runs no handler and sends no reply for it, and the other
\* signals asserted in the same iteration are still to be serviced in it.
C25_FailedGetSkipsOneSignal ==
    [][PsaGetFails => /\ todo' = todo \ {NextSignal}
                      /\ pc' = "loop"
                      /\ UNCHANGED <<msg, trace, counter, clones, acl, conns, heap>>]_vars

----------------------------------------------------------------------------
(* C26 *)

\* the handler of the message retrieved before has run to its reply
PreviousHandlerReplied ==
    /\ pc = "loop"
    /\ msg.kind # "none" => /\ trace # << >>
                            /\ trace[Len(trace)].op = "psa_reply"

\* C26: handlers are never interleaved: a message is retrieved only when the
\* handler of the message before it has run to completion and replied, and the
\* reference count, the slot pool and the registry change only in the one step
\* that takes a retrieved message through its whole handler.
C26_HandlersNotInterleaved ==
    [][/\ pc' = "handle" => PreviousHandlerReplied
       /\ <<counter, clones, acl>>' # <<counter, clones, acl>>
             => pc = "handle" /\ pc' # "handle"]_vars

C26_Witness ==
    /\ pc = "handle"
    /\ IsCall("PSA_HASH", "PSA_HASH_CLONE_END")
    /\ trace = << >>
    /\ \E i \in CloneIdx : clones[i].ref_count = 2

----------------------------------------------------------------------------
(* C27 *)

\* C27: the assembly of the composite key identifier is injective: the
\* identifiers assembled for (k1, p1) and (k2, p2) are equal only if k1 = k2 and
\* p1 = p2, so two callers naming the same 32-bit identifier never get the same
\* engine identifier; and equal inputs give equal identifiers.
C27_AssemblyInjective ==
    assembly.by # "none"
        => /\ assembly.id1 = assembly.id2
                => assembly.k1 = assembly.k2 /\ assembly.p1 = assembly.p2
           /\ (assembly.k1 = assembly.k2 /\ assembly.p1 = assembly.p2)
                => assembly.id1 = assembly.id2

C27_Witness ==
    /\ assembly.by = "psa_crypto_access_control_assemble_psa_key_id"
    /\ assembly.k1 = assembly.k2
    /\ assembly.k1 = <<LIMB - 1, LIMB - 1>>
    /\ assembly.p1 = -1
    /\ assembly.p2 = 1
    /\ assembly.id1 = <<LIMB - 1, LIMB - 1, LIMB - 1, LIMB - 1>>
    /\ assembly.id1 # assembly.id2

----------------------------------------------------------------------------
(* C28 *)

\* position in trace of the first update the sink failed, 0 when there is none
FirstSinkFailure ==
    LET failed == {i \in 1..Len(trace) : trace[i].op \in UpdateOps /\ trace[i].st # PSA_SUCCESS}
    IN  IF failed = {} THEN 0 ELSE Lowest(failed)

\* C28: when the sink of a hash or MAC update fails on a chunk, the transfer
\* stops there: after the failed update nothing more is read and the sink is
\* not invoked again, the scratch buffer is freed and the reply carries the
\* sink's status; the chunks fed before stay fed.
C28_SinkFailureStopsTransfer ==
    (Done /\ UpdateCall /\ SinkFailed)
        => LET i == FirstSinkFailure
           IN  /\ Replied
               /\ SubSeq(trace, i + 1, Len(trace)) = << FreeBuf(1), Reply(trace[i].st) >>
               /\ \A j \in 1..(i - 1) : trace[j].op \in UpdateOps => trace[j].st = PSA_SUCCESS
               /\ World = pre

\* of 1000 bytes the second chunk fails: the third is never read
C28_Witness ==
    /\ Replied
    /\ UpdateCall
    /\ msg.len = 2 * MAX_DATA_CHUNK_SIZE_IN_BYTES + 200
    /\ SinkSizes = << MAX_DATA_CHUNK_SIZE_IN_BYTES, MAX_DATA_CHUNK_SIZE_IN_BYTES >>
    /\ SinkFailed
    /\ Replies(trace) = << Reply(PSA_ERROR_BAD_STATE) >>

----------------------------------------------------------------------------
(* C29 *)

\* the positions in trace of the events of operation op on address a
PositionsOf(op, a) == {i \in 1..Len(trace) : trace[i].op = op /\ trace[i].a = a}

\* C29: a hash disconnect invokes the engine abort on the connection's
\* context, then releases the clone slot of the context, then frees the
\* context, each once and in that order; without a context only the abort is
\* invoked. Afterwards no slot refers to the context, and the disconnect is
\* always answered with success, whatever the abort returned.
C29_HashDisconnectOrder ==
    (Done /\ HashDisconnect)
        => LET rh == pre.conns[msg.chan].rhandle
               aborts == PositionsOf("psa_hash_abort", rh)
               releases == PositionsOf("destroy_hash_clone", rh)
               frees == {i \in PositionsOf("free", rh) : trace[i] = FreeCtx(rh)}
           IN  /\ Replied
               /\ Replies(trace) = << Reply(PSA_SUCCESS) >>
               /\ aborts = {1}
               /\ IF rh # NULL
                  THEN /\ releases = {2}
                       /\ frees = {3}
                       /\ SlotsOfContext(clones) = {}
                       /\ rh \notin heap
                  ELSE releases = {} /\ frees = {}

\* a connection whose context holds a clone slot disconnects while the
\* engine's abort fails: the slot is released, then the context is freed
C29_Witness ==
    /\ Replied
    /\ HashDisconnect
    /\ SlotsOfContext(pre.clones) # {}
    /\ SlotsOfContext(clones) = {}
    /\ trace[1].op = "psa_hash_abort" /\ trace[1].st # PSA_SUCCESS
    /\ trace[2].op = "destroy_hash_clone"
    /\ trace[3] = FreeCtx(pre.conns[msg.chan].rhandle)
    /\ Replies(trace) = << Reply(PSA_SUCCESS) >>

----------------------------------------------------------------------------
(* C30 *)

\* the key-management and generator sub-operations that allocate a scratch buffer
AllocatingKeyOps ==
    [PSA_KEY_MNG |-> {"PSA_IMPORT_KEY", "PSA_EXPORT_KEY", "PSA_EXPORT_PUBLIC_KEY",
                      "PSA_GENERATE_KEY"},
     PSA_GENERATOR |-> {"PSA_GENERATOR_READ", "PSA_KEY_DERIVATION", "PSA_KEY_AGREEMENT"}]

AllocatingKeyCall ==
    /\ msg.kind \in DOMAIN AllocatingKeyOps
    /\ msg.type = PSA_IPC_CALL
    /\ msg.func \in AllocatingKeyOps[msg.kind]

\* position in trace of the scratch allocation that failed, 0 when none did
FailedAlloc ==
    LET failed == {i \in 1..Len(trace) : \E id \in ScratchIds : trace[i] = AllocBufFail(id)}
    IN  IF failed = {} THEN 0 ELSE Lowest(failed)

\* C30: when a scratch allocation of import, export, export-public, generate,
\* generator-read, key-derivation or key-agreement fails, the sub-operation
\* ends there: the engine is not invoked and nothing is written, after the
\* failure nothing is read and the refused buffer is not touched (only a
\* buffer allocated earlier is freed), the partition state is unchanged and
\* the one reply is insufficient-memory.
C30_AllocFailureEndsSubOperation ==
    (Done /\ AllocatingKeyCall /\ FailedAlloc # 0)
        => LET i == FailedAlloc
               failed_id == trace[i].b
           IN  /\ Replied
               /\ Replies(trace) = << Reply(PSA_ERROR_INSUFFICIENT_MEMORY) >>
               /\ trace[Len(trace)] = Reply(PSA_ERROR_INSUFFICIENT_MEMORY)
               /\ \A j \in 1..Len(trace) :
                      trace[j].op \in {"psa_read", "calloc", "free", "psa_reply"}
               /\ \A j \in (i + 1)..(Len(trace) - 1) :
                      \E id \in ScratchIds \ {failed_id} :
                          trace[j] = FreeBuf(id) /\ ScratchAllocs(id) # {}
               /\ World = pre

\* a key derivation whose salt buffer was allocated and whose label buffer was
\* refused: the salt buffer is freed and the engine is not invoked
C30_Witness ==
    /\ Replied
    /\ IsCall("PSA_GENERATOR", "PSA_KEY_DERIVATION")
    /\ FailedAlloc # 0
    /\ trace[FailedAlloc] = AllocBufFail(2)
    /\ HasEvent(AllocBuf(1))
    /\ trace[Len(trace) - 1] = FreeBuf(1)
    /\ Replies(trace) = << Reply(PSA_ERROR_INSUFFICIENT_MEMORY) >>

----------------------------------------------------------------------------
(* C31 *)

\* the step is one of the handler set that crypto_main registers for kind k
HandlerSetOf(k) ==
    CASE k = "PSA_CRYPTO_INIT" -> HandleInit
      [] k = "PSA_MAC" -> HandleMac
      [] k = "PSA_HASH" -> HandleHash
      [] k = "PSA_SYMMETRIC" -> HandleSymmetric
      [] k = "PSA_ASYMMETRIC" -> HandleAsymmetric
      [] k = "PSA_AEAD" -> HandleAead
      [] k = "PSA_KEY_MNG" -> HandleKeyMng
      [] k = "PSA_RNG" -> HandleRng
      [] k = "PSA_CRYPTO_FREE" -> HandleFree
      [] k = "PSA_GENERATOR" -> HandleGenerator
      [] k = "PSA_ENTROPY_INJECT" -> HandleEntropy

\* C31: in an iteration of the dispatch loop a message is retrieved only for an
\* asserted signal and is handled by the handler set of its own kind, and an
\* asserted signal is done with only by one message of its kind having been
\* retrieved and answered: none is dropped without a retrieval.
C31_OneMessagePerAssertedSignal ==
    [][/\ (pc = "loop" /\ pc' = "handle")
            => msg'.kind \in todo /\ todo' = todo
       /\ (pc = "handle" /\ pc' = "loop")
            => msg.kind \in todo /\ todo' = todo \ {msg.kind} /\ HandlerSetOf(msg.kind)
       /\ (todo # {} /\ todo' # todo)
            => pc = "handle" /\ pc' = "loop"]_vars

----------------------------------------------------------------------------
(* C32 *)

InitRequest == msg.kind = "PSA_CRYPTO_INIT" /\ msg.type = PSA_IPC_CALL

FreeRequest == msg.kind = "PSA_CRYPTO_FREE" /\ msg.type = PSA_IPC_CALL

\* the handler of msg runs in this step
HandlerStep == pc = "handle" /\ pc' # "handle"

----------------------------------------------------------------------------
(* C33 *)

\* the service kinds that register no connect and no disconnect handler
NoConnectHandlerKinds ==
    {"PSA_CRYPTO_INIT", "PSA_CRYPTO_FREE", "PSA_ASYMMETRIC", "PSA_AEAD", "PSA_RNG",
     "PSA_ENTROPY_INJECT", "PSA_KEY_MNG"}

UnhandledMessage ==
    /\ msg.kind \in NoConnectHandlerKinds
    /\ msg.type \in {PSA_IPC_CONNECT, PSA_IPC_DISCONNECT}

\* C33: a connect or a disconnect on a service kind that registers no handler
\* for it (lifecycle init and free, asymmetric, AEAD, RNG, entropy injection,
\* key management) is a no-op: the only external call is the reply, with
\* success, and the count, the slot pool, the registry, the connections'
\* contexts and the heap are as before.
C33_UnhandledMessageIsNoOp ==
    (Done /\ UnhandledMessage)
        => /\ Replied
           /\ trace = << Reply(PSA_SUCCESS) >>
           /\ World = pre

\* a disconnect on key management while a handle is registered and the count is up
C33_Witness ==
    /\ Replied
    /\ msg.kind = "PSA_KEY_MNG"
    /\ msg.type = PSA_IPC_DISCONNECT
    /\ counter > 0
    /\ \E h \in Handles : acl[h] # 0
    /\ trace = << Reply(PSA_SUCCESS) >>

----------------------------------------------------------------------------
(* C34 *)

\* the kinds whose call handler reads parameter 0 into its header structure
\* without comparing in_size[0] with the structure's size
UncheckedHeaderKinds ==
    {"PSA_MAC", "PSA_HASH", "PSA_SYMMETRIC", "PSA_ASYMMETRIC", "PSA_AEAD"}

\* the size of the fixed destination that parameter 1 of msg is read into:
\* id.key_id (uint32_t) in create-key and open-key, bits (size_t) in generate-key
FixedDestination ==
    [PSA_CREATE_KEY |-> CLIENT_PSA_KEY_ID_SIZE_IN_BYTES,
     PSA_OPEN_KEY |-> CLIENT_PSA_KEY_ID_SIZE_IN_BYTES,
     PSA_GENERATE_KEY |-> SIZEOF_SIZE_T]

\* the reads of trace that delivered all the bytes requested for parameter slot
FullReads(slot) ==
    {i \in 1..Len(trace) : trace[i] = ReadOk(slot, trace[i].b)}

\* C34: no read fills a fixed destination with more bytes than it holds: a
\* header longer than the header structure is never read into it, and
\* parameter 1 of create-key, open-key and generate-key is read with at most
\* the size of the key id and of the bit count.
C34_ReadsFitDestination ==
    (Done /\ msg.type = PSA_IPC_CALL)
        => /\ (msg.kind \in UncheckedHeaderKinds /\ FullReads(0) # {})
                 => msg.in0 # "long"
           /\ (msg.kind = "PSA_KEY_MNG" /\ msg.func \in DOMAIN FixedDestination)
                 => \A i \in FullReads(1) : trace[i].b <= FixedDestination[msg.func]

----------------------------------------------------------------------------
(* C35 *)

\* slot i holds a source operation and an owning caller
Occupied(i) == clones[i].source_operation # NULL /\ clones[i].partition_id # 0

\* C35: a slot is occupied exactly when its reference count is above zero,
\* however many times the same pair is reserved.
C35_OccupiedIffCounted ==
    \A i \in CloneIdx : Occupied(i) <=> clones[i].ref_count > 0

----------------------------------------------------------------------------
(* C36 *)

\* the handler of msg wiped the slot pool and reset the registry
PoolAndRegistryReset ==
    /\ HasEvent(Ev("memset", 0, 0, "psa_spm_hash_clones"))
    /\ HasOp("psa_crypto_access_control_init") \/ HasOp("psa_crypto_access_control_destroy")
    /\ clones = NoClones
    /\ acl = [h \in Handles |-> 0]

\* the handler of msg left the slot pool and the registry alone
PoolAndRegistryUntouched ==
    /\ ~HasOp("memset")
    /\ ~HasOp("psa_crypto_access_control_init")
    /\ ~HasOp("psa_crypto_access_control_destroy")
    /\ clones = pre.clones
    /\ acl = pre.acl

----------------------------------------------------------------------------
(* C37 *)

\* the message that waited on kind k was retrieved and answered
Answered(k) == k \notin pending.msgs /\ msg.kind = k /\ pc = "loop" /\ Replies(trace) # << >>

\* C37: under fair scheduling every message waiting on some kind is eventually
\* retrieved and replied to, also when psa_get keeps failing for another kind
\* whose signal is asserted.
C37_PendingEventuallyHandled ==
    \A k \in LiveKinds : (k \in pending.msgs) ~> Answered(k)

----------------------------------------------------------------------------
(* C38 *)

\* the transfer loop is over: the case has reached its reply, or the process
\* was stopped on a short read
TransferOver == transfer.at \in {"reply", "panic"}

\* C38: for every payload length and every chunk size of at least 1 the
\* transfer loop terminates: an iteration takes a positive number of bytes,
\* the chunk read, off the remaining length, or leaves the loop because the
\* sink failed, or stops the process on a short read; so the case reaches its
\* reply or the panic.
C38_TransferTerminates ==
    /\ [][/\ transfer.at = "psa_read"
               => \/ transfer'.at = "panic"
                  \/ /\ transfer'.bytes_read > 0
                     /\ transfer'.bytes_read <= transfer.data_remaining
          /\ transfer.at = "update"
               => \/ transfer'.at = "free" /\ transfer'.status # PSA_SUCCESS
                  \/ /\ transfer'.at = "while"
                     /\ transfer'.data_remaining = transfer.data_remaining - transfer.bytes_read
                     /\ transfer'.data_remaining < transfer.data_remaining
                     /\ transfer'.data_remaining >= 0]_vars
    /\ <>TransferOver

\* 1000 bytes went through in chunks of 1: a thousand iterations, then the reply
C38_Witness ==
    /\ transfer.at = "reply"
    /\ transfer.len = 2 * MAX_DATA_CHUNK_SIZE_IN_BYTES + 200
    /\ transfer.chunk = 1
    /\ transfer.chunks = transfer.len
    /\ transfer.data_remaining = 0
    /\ transfer.status = PSA_SUCCESS

====
